---- MODULE Spec2Model ----
(***************************************************************************)
(* A model of the generic Kubernetes resource-access layer of kubeapi-mcp  *)
(* (pkg/tools/kubernetes/kubernetes.go): the handlers getResources,        *)
(* applyResource, deleteResource, patchResource and apiResources, the      *)
(* resolver findGVR, and the cluster they talk to.                         *)
(*                                                                         *)
(* Strings that the code cuts or joins (manifests, rendered output) are    *)
(* sequences of atoms; "---" and "\n" are atoms of their own.  A           *)
(* GroupVersion string is the sequence of its "/"-separated segments.      *)
(* A handler is cut into steps at the places where it waits for the        *)
(* cluster: its discovery call and its request to a resource are two       *)
(* steps, and between them the calls that run beside it and the cluster    *)
(* itself take theirs.  One call at a time is followed through its steps:  *)
(* it leaves the requests it sent in trace and its response in result,     *)
(* and the response is then delivered.  The calls running beside it are    *)
(* seen by what they do to what the handlers share: the objects on the     *)
(* server and the discovery data of the REST mapper.                       *)
(***************************************************************************)
EXTENDS Integers, Sequences, FiniteSets, TLC

VARIABLES
    cluster,      \* the cluster's discovery listing: a sequence of API resource lists
    server,       \* the objects stored on the API server
    mapperCache,  \* the discovery data held by handlers.mapper (memory cache client)
    trace,        \* the requests the running invocation has sent, in order
    result,       \* the response of the invocation, until it is delivered
    apply,        \* the locals of a running applyResource: its loop over the parts
    noted,        \* an earlier resolution of this discovery epoch, kept for comparison
    notedFail,    \* an earlier failed Apply, kept for comparison
    workers,      \* the locals of the calls of applyResource that run side by side
    initMu,       \* the holder of the lock of handlers.mapper, 0 when it is free
    installed,    \* the configuration Install was called with and the tools it registered
    call,         \* the locals of a running getResources, deleteResource or patchResource
    rendering     \* an object getResources was answered with, and the YAML its caller holds

vars == <<cluster, server, mapperCache, trace, result, apply, noted, notedFail,
          workers, initMu, installed, call, rendering>>

(***************************************************************************)
(* Bounds of the model.                                                    *)
(***************************************************************************)
\* segments (documents or blanks between "---") of a manifest
MaxDocs == 3
\* API groups whose discovery fails in one discovery call
MaxFailedGroups == 1
\* columns of a column specification
MaxColumns == 2
\* objects handed to FmtCustomColumns
MaxItems == 2
\* calls of applyResource that run side by side
MaxWorkers == 2
\* elements of a sequence value of an object
MaxElems == 2
MaxNameLen == 4

(***************************************************************************)
(* Small helpers on sequences.                                             *)
(***************************************************************************)
SeqsUpTo(S, n) == UNION { [1..k -> S] : k \in 1..n }

(***************************************************************************)
(* The cluster: API groups, their resources, and discovery.                *)
(***************************************************************************)
PodsRes ==
    [Name |-> "pods", SingularName |-> "pod", Kind |-> "Pod",
     ShortNames |-> <<"po">>, Namespaced |-> TRUE]
NodesRes ==
    [Name |-> "nodes", SingularName |-> "node", Kind |-> "Node",
     ShortNames |-> <<"no">>, Namespaced |-> FALSE]
EventsRes ==
    [Name |-> "events", SingularName |-> "event", Kind |-> "Event",
     ShortNames |-> <<"ev">>, Namespaced |-> TRUE]
WidgetsRes ==
    [Name |-> "widgets", SingularName |-> "widget", Kind |-> "Widget",
     ShortNames |-> <<"wg">>, Namespaced |-> TRUE]

CoreV1 == [GroupVersion |-> <<"v1">>, APIResources |-> <<PodsRes, NodesRes, EventsRes>>]
EventsV1 == [GroupVersion |-> <<"events.k8s.io", "v1">>, APIResources |-> <<EventsRes>>]
ExampleV1 == [GroupVersion |-> <<"example.com", "v1">>, APIResources |-> <<WidgetsRes>>]

BaseListing == <<CoreV1, EventsV1>>
CRDListing == <<CoreV1, EventsV1, ExampleV1>>

NoGVR == [Group |-> "", Version |-> "", Resource |-> ""]
NoErr == [msg |-> "", arg |-> ""]
Err(m, a) == [msg |-> m, arg |-> a]

\* schema.ParseGroupVersion: "" and "/" give the empty value, no "/" a version,
\* one "/" group and version, anything else an error.
ParseGroupVersion(gv) ==
    CASE Len(gv) = 0 -> [ok |-> TRUE, Group |-> "", Version |-> ""]
      [] Len(gv) = 1 -> [ok |-> TRUE, Group |-> "", Version |-> gv[1]]
      [] Len(gv) = 2 -> [ok |-> TRUE, Group |-> gv[1], Version |-> gv[2]]
      [] OTHER -> [ok |-> FALSE, Group |-> "", Version |-> ""]

\* What one discovery call can meet: the endpoint is unreachable (total), or the
\* discovery of some groups fails.
DiscoveryOutcomes(cl) ==
    { [total |-> t, failed |-> f] :
        t \in BOOLEAN,
        f \in { g \in SUBSET (1..Len(cl)) : Cardinality(g) <= MaxFailedGroups } }
    \ { d \in [total : {TRUE}, failed : SUBSET (1..Len(cl))] : d.failed # {} }

RECURSIVE Retrieved(_, _, _)
Retrieved(cl, failed, i) ==
    IF i > Len(cl) THEN <<>>
    ELSE (IF i \in failed THEN <<>> ELSE <<cl[i]>>) \o Retrieved(cl, failed, i + 1)

\* discovery.ServerGroupsAndResources as the handlers see it: the lists of the
\* groups that answered, as the server sent them, with no error, an
\* *ErrGroupDiscoveryFailed when some group failed, or another error and no lists.
ServerGroupsAndResources(cl, d) ==
    IF d.total
    THEN [lists |-> <<>>, err |-> "unavailable"]
    ELSE [lists |-> Retrieved(cl, d.failed, 1),
          err |-> IF d.failed = {} THEN "nil" ELSE "ErrGroupDiscoveryFailed"]

\* the listings with the lists of a listing, the resources of each in any order
RECURSIVE Shuffled(_)
Shuffled(lists) ==
    IF lists = <<>> THEN {<<>>}
    ELSE LET n == Len(Head(lists).APIResources) IN
         { <<[Head(lists) EXCEPT
                 !.APIResources = [j \in 1..n |-> Head(lists).APIResources[p[j]]]]>> \o rest :
             p \in { q \in [1..n -> 1..n] : \A i, j \in 1..n : q[i] = q[j] => i = j },
             rest \in Shuffled(Tail(lists)) }

\* discovery.ServerPreferredResources: the same groups and the same error, but each
\* list is put together from a map of its resources, in the order in which the
\* map happens to be walked through; these are the answers one call can give
ServerPreferredResources(cl, d) ==
    { [lists |-> l, err |-> ServerGroupsAndResources(cl, d).err] :
        l \in Shuffled(ServerGroupsAndResources(cl, d).lists) }

DiscoveryRequest ==
    [verb |-> "discovery", gvr |-> NoGVR, ns |-> "", name |-> "", opt |-> "", body |-> <<>>]

(***************************************************************************)
(* findGVR and contains.                                                   *)
(***************************************************************************)
contains(slice, s) == \E i \in 1..Len(slice) : slice[i] = s

\* Matches without the comparison with the singular name
MatchesNoSingular(resource, resourceKind) ==
    \/ resource.Kind = resourceKind
    \/ resource.Name = resourceKind
    \/ contains(resource.ShortNames, resourceKind)

\* the condition of the inner loop of findGVR
Matches(resource, resourceKind) ==
    \/ resource.Kind = resourceKind
    \/ resource.Name = resourceKind
    \/ resource.SingularName = resourceKind
    \/ contains(resource.ShortNames, resourceKind)

\* the two nested loops of findGVR, from list i, resource j on
RECURSIVE FindFrom(_, _, _, _)
FindFrom(lists, i, j, resourceKind) ==
    IF i > Len(lists) THEN
        [gvr |-> NoGVR, err |-> Err("resource kind not found", resourceKind)]
    ELSE IF j > Len(lists[i].APIResources) THEN
        FindFrom(lists, i + 1, 1, resourceKind)
    ELSE IF Matches(lists[i].APIResources[j], resourceKind) THEN
        LET gv == ParseGroupVersion(lists[i].GroupVersion) IN
        IF ~gv.ok
        THEN [gvr |-> NoGVR, err |-> Err("failed to parse group version", "unexpected GroupVersion string")]
        ELSE [gvr |-> [Group |-> gv.Group, Version |-> gv.Version,
                       Resource |-> lists[i].APIResources[j].Name],
              err |-> NoErr]
    ELSE FindFrom(lists, i, j + 1, resourceKind)

\* findGVR taking an identifier that matches nothing for the plural name of a core
\* resource
findGVRGuess(disc, resourceKind) ==
    IF disc.err \notin {"nil", "ErrGroupDiscoveryFailed"}
    THEN [gvr |-> NoGVR, err |-> Err("failed to get server preferred resources", disc.err)]
    ELSE IF FindFrom(disc.lists, 1, 1, resourceKind).err.msg = "resource kind not found"
    THEN [gvr |-> [Group |-> "", Version |-> "v1", Resource |-> resourceKind],
          err |-> NoErr]
    ELSE FindFrom(disc.lists, 1, 1, resourceKind)

\* findGVR returning on every error of the discovery call, a failed group included
findGVRStrict(disc, resourceKind) ==
    IF disc.err # "nil"
    THEN [gvr |-> NoGVR, err |-> Err("failed to get server preferred resources", disc.err)]
    ELSE FindFrom(disc.lists, 1, 1, resourceKind)

\* findGVR on the answer of its discovery call
findGVR(disc, resourceKind) ==
    IF disc.err \notin {"nil", "ErrGroupDiscoveryFailed"}
    THEN [gvr |-> NoGVR, err |-> Err("failed to get server preferred resources", disc.err)]
    ELSE FindFrom(disc.lists, 1, 1, resourceKind)

(***************************************************************************)
(* Objects, and the format converter on atoms.                             *)
(***************************************************************************)
\* the objects of the server, and the YAML documents of the model: three of these
\* objects, a pod without metadata.namespace, a mapping without kind, and text that
\* is no YAML
ObjectAtoms == {"podA", "nodeA", "widgetA", "podB"}
ManifestObjects == {"podA", "nodeA", "widgetA", "podB", "podC"}
DocAtoms == {"podA", "nodeA", "widgetA", "podC", "nokind", "bad"}
PatchAtoms == {"patchOK", "patchBad"}

\* the object a document describes (apiVersion, kind, metadata.namespace, metadata.name)
ObjectOf(atom) ==
    CASE atom = "podA" ->
           [apiVersion |-> <<"v1">>, kind |-> "Pod", namespace |-> "default", name |-> "a"]
      [] atom = "podB" ->
           [apiVersion |-> <<"v1">>, kind |-> "Pod", namespace |-> "default", name |-> "b"]
      [] atom = "podC" ->
           [apiVersion |-> <<"v1">>, kind |-> "Pod", namespace |-> "", name |-> "c"]
      [] atom = "nodeA" ->
           [apiVersion |-> <<"v1">>, kind |-> "Node", namespace |-> "default", name |-> "a"]
      [] atom = "widgetA" ->
           [apiVersion |-> <<"example.com", "v1">>, kind |-> "Widget",
            namespace |-> "default", name |-> "a"]
      [] OTHER ->
           [apiVersion |-> <<>>, kind |-> "", namespace |-> "", name |-> ""]

\* the YAML of pod a written with a quoted string value that holds "---": the text
\* before the "---" leaves the quote open and the text after it closes a quote that
\* was never opened, so neither is YAML by itself
QuotedDoc == <<"podA{", "---", "}">>

\* YAMLToJSON converting whatever text it is given
YAMLToJSONLenient(text) ==
    IF Len(text) = 1
    THEN [err |-> NoErr, json |-> <<"json", text[1]>>]
    ELSE [err |-> Err("yaml", "error converting YAML to JSON"), json |-> <<>>]

\* yaml.YAMLToJSON of a text: the JSON bytes of the one document it holds, or an error
YAMLToJSON(text) ==
    IF Len(text) = 1 /\ text[1] \in (ManifestObjects \cup {"nokind", "patchOK"})
    THEN [err |-> NoErr, json |-> <<"json", text[1]>>]
    ELSE IF text = QuotedDoc
    THEN [err |-> NoErr, json |-> <<"json", "podA">>]
    ELSE [err |-> Err("yaml", "error converting YAML to JSON"), json |-> <<>>]

\* yaml.JSONToYAML of the JSON bytes of an object: its YAML document, newline-terminated
JSONToYAML(json) == <<json[2], "\n">>

\* json.Marshal(obj.Object)
Marshal(atom) == <<"json", atom>>

\* unstructured.Unstructured.UnmarshalJSON: an object must carry a kind
UnmarshalJSON(json) ==
    IF json[2] \in ManifestObjects
    THEN [err |-> NoErr, obj |-> json[2]]
    ELSE [err |-> Err("unmarshal", "Object 'Kind' is missing"), obj |-> ""]

\* strings.Join
RECURSIVE Join(_, _)
Join(elems, sep) ==
    IF elems = <<>> THEN <<>>
    ELSE IF Len(elems) = 1 THEN elems[1]
    ELSE elems[1] \o sep \o Join(Tail(elems), sep)

\* strings.Split(text, sep) for a separator of one atom
RECURSIVE Split(_, _)
Split(text, sep) ==
    IF \A i \in 1..Len(text) : text[i] # sep THEN <<text>>
    ELSE LET i == CHOOSE k \in 1..Len(text) :
                      text[k] = sep /\ \A m \in 1..(k - 1) : text[m] # sep
         IN  <<SubSeq(text, 1, i - 1)>> \o Split(SubSeq(text, i + 1, Len(text)), sep)

\* the loop putting each document before those already rendered
RECURSIVE YamlDocsReversed(_)
YamlDocsReversed(items) ==
    IF items = <<>> THEN <<>>
    ELSE YamlDocsReversed(Tail(items)) \o <<JSONToYAML(Marshal(Head(items)))>>

\* the loop that renders fetched or applied objects as YAML documents
RECURSIVE YamlDocs(_)
YamlDocs(items) ==
    IF items = <<>> THEN <<>>
    ELSE <<JSONToYAML(Marshal(Head(items)))>> \o YamlDocs(Tail(items))

(***************************************************************************)
(* The API server behind the dynamic client.                               *)
(***************************************************************************)
\* the resources the cluster serves, with their coordinates
ServedResources(cl) ==
    UNION { { [gvr |-> [Group |-> ParseGroupVersion(cl[i].GroupVersion).Group,
                        Version |-> ParseGroupVersion(cl[i].GroupVersion).Version,
                        Resource |-> cl[i].APIResources[j].Name],
               Kind |-> cl[i].APIResources[j].Kind,
               Namespaced |-> cl[i].APIResources[j].Namespaced] :
              j \in 1..Len(cl[i].APIResources) } :
            i \in 1..Len(cl) }

\* where the server keeps an object: cluster-scoped objects have no namespace
Location(atom) ==
    CASE atom = "podA" ->
           [gvr |-> [Group |-> "", Version |-> "v1", Resource |-> "pods"],
            ns |-> "default", name |-> "a"]
      [] atom = "podB" ->
           [gvr |-> [Group |-> "", Version |-> "v1", Resource |-> "pods"],
            ns |-> "default", name |-> "b"]
      [] atom = "podC" ->
           [gvr |-> [Group |-> "", Version |-> "v1", Resource |-> "pods"],
            ns |-> "", name |-> "c"]
      [] atom = "nodeA" ->
           [gvr |-> [Group |-> "", Version |-> "v1", Resource |-> "nodes"],
            ns |-> "", name |-> "a"]
      [] atom = "widgetA" ->
           [gvr |-> [Group |-> "example.com", Version |-> "v1", Resource |-> "widgets"],
            ns |-> "default", name |-> "a"]

\* the labels the label selectors of the model select on
HasLabels(atom, selector) == selector = "" \/ (selector = "app=x" /\ atom = "podA")

\* the order in which the server lists objects
ListOrder == <<"podA", "podB", "nodeA", "widgetA">>

InOrder(objs) == SelectSeq(ListOrder, LAMBDA x : x \in objs)

ServerError(m, a) == [sent |-> TRUE, err |-> Err(m, a), items |-> <<>>]

\* One call of the dynamic client, h.dyn.Resource(gvr)[.Namespace(ns)].<Verb>: the
\* client refuses a named call without a name; the server routes the request by the
\* scope of the resource and answers from its store.
Dyn(cl, srv, req, fail) ==
    LET served == { e \in ServedResources(cl) : e.gvr = req.gvr }
        at == { x \in srv : Location(x) = [gvr |-> req.gvr, ns |-> req.ns, name |-> req.name] }
        noRoute ==
            \/ served = {}
            \/ \E e \in served : ~e.Namespaced /\ req.ns # ""
            \/ \E e \in served : e.Namespaced /\ req.ns = "" /\ req.verb # "list"
    IN  IF req.verb # "list" /\ req.name = "" THEN
            [sent |-> FALSE, err |-> Err("client", "name is required"), items |-> <<>>,
             server |-> srv]
        ELSE IF fail THEN
            ServerError("server", "request failed") @@ [server |-> srv]
        ELSE IF noRoute THEN
            ServerError("NotFound", "the server could not find the requested resource")
                @@ [server |-> srv]
        ELSE IF req.verb = "list" THEN
            [sent |-> TRUE, err |-> NoErr,
             items |-> InOrder({ x \in srv : /\ Location(x).gvr = req.gvr
                                            /\ req.ns \in {"", Location(x).ns}
                                            /\ HasLabels(x, req.opt) }),
             server |-> srv]
        ELSE IF req.verb = "apply" THEN
            IF Location(req.body[2]) = [gvr |-> req.gvr, ns |-> req.ns, name |-> req.name]
            THEN [sent |-> TRUE, err |-> NoErr, items |-> <<req.body[2]>>,
                  server |-> srv \cup {req.body[2]}]
            ELSE ServerError("BadRequest", "object does not match the request")
                    @@ [server |-> srv]
        ELSE IF at = {} THEN
            ServerError("NotFound", req.name) @@ [server |-> srv]
        ELSE IF req.verb = "delete" THEN
            [sent |-> TRUE, err |-> NoErr, items |-> <<>>, server |-> srv \ at]
        ELSE
            [sent |-> TRUE, err |-> NoErr, items |-> InOrder(at), server |-> srv]

\* a call that sends its request once more when the server answers with an error
SentRetried(resp, req) ==
    IF ~resp.sent THEN <<>>
    ELSE IF resp.err # NoErr THEN <<req, req>>
    ELSE <<req>>

\* the requests one call of the dynamic client sends: one, unless the client refuses
\* the call
Sent(resp, req) == IF resp.sent THEN <<req>> ELSE <<>>

(***************************************************************************)
(* FmtCustomColumns.  A column specification is text with "," between the   *)
(* columns and ":" between the header and the path of a column; a path is   *)
(* the keys it steps through, "[?]" for a filter that selects nothing and    *)
(* "[" for a bracket that is never closed.                                   *)
(***************************************************************************)
\* the value of an object at the end of a chain of keys, if there is one
Field(atom, keys) ==
    CASE keys = <<>> -> [found |-> TRUE, kind |-> "map", value |-> "map[]"]
      [] keys = <<"kind">> ->
           [found |-> TRUE, kind |-> "string", value |-> ObjectOf(atom).kind]
      [] keys = <<"metadata">> -> [found |-> TRUE, kind |-> "map", value |-> "map[]"]
      [] keys = <<"metadata", "name">> ->
           [found |-> TRUE, kind |-> "string", value |-> ObjectOf(atom).name]
      [] keys = <<"spec">> -> [found |-> TRUE, kind |-> "map", value |-> "map[]"]
      [] keys = <<"spec", "containers">> /\ ObjectOf(atom).kind = "Pod" ->
           [found |-> TRUE, kind |-> "list", value |-> "[]"]
      [] OTHER -> [found |-> FALSE, kind |-> "", value |-> ""]

\* jsonpath.Parse("{" + path + "}")
Parse(path) ==
    IF \E i \in 1..Len(path) : path[i] = "["
    THEN Err("parse", "unterminated array")
    ELSE NoErr

\* jsonpath.FindResults on an object, missing keys not allowed (the default): the
\* values found from the keys stepped through so far, following the steps left
RECURSIVE Walk(_, _, _)
Walk(atom, keys, steps) ==
    IF steps = <<>> THEN [err |-> NoErr, results |-> <<Field(atom, keys).value>>]
    ELSE IF Head(steps) = "[?]" THEN
        IF Field(atom, keys).kind = "list"
        THEN [err |-> NoErr, results |-> <<>>]
        ELSE [err |-> Err("find", "is not array or slice and cannot be filtered"),
              results |-> <<>>]
    ELSE IF Field(atom, keys \o <<Head(steps)>>).found
    THEN Walk(atom, keys \o <<Head(steps)>>, Tail(steps))
    ELSE [err |-> Err(Head(steps), "is not found"), results |-> <<>>]

FindResults(atom, path) == Walk(atom, <<>>, path)

\* the inner loop body with nothing appended to the row when nothing is found
CellSkippingEmpty(atom, path) ==
    LET f == FindResults(atom, path) IN
    IF Parse(path) # NoErr
    THEN [err |-> Err("failed to parse jsonpath", Parse(path).arg), cells |-> <<>>]
    ELSE IF f.err # NoErr
    THEN [err |-> Err("failed to find results", f.err.msg), cells |-> <<>>]
    ELSE IF Len(f.results) > 0
    THEN [err |-> NoErr, cells |-> << <<f.results[1]>> >>]
    ELSE [err |-> NoErr, cells |-> <<>>]

\* the body of the inner loop: what is appended to the row for one path
Cell(atom, path) ==
    LET f == FindResults(atom, path) IN
    IF Parse(path) # NoErr
    THEN [err |-> Err("failed to parse jsonpath", Parse(path).arg), cells |-> <<>>]
    ELSE IF f.err # NoErr
    THEN [err |-> Err("failed to find results", f.err.msg), cells |-> <<>>]
    ELSE IF Len(f.results) > 0
    THEN [err |-> NoErr, cells |-> << <<f.results[1]>> >>]
    ELSE [err |-> NoErr, cells |-> << <<"<none>">> >>]

\* the inner loop: the row of an item
RECURSIVE Row(_, _)
Row(atom, paths) ==
    IF paths = <<>> THEN [err |-> NoErr, cells |-> <<>>]
    ELSE IF Cell(atom, Head(paths)).err # NoErr THEN Cell(atom, Head(paths))
    ELSE IF Row(atom, Tail(paths)).err # NoErr THEN Row(atom, Tail(paths))
    ELSE [err |-> NoErr,
          cells |-> Cell(atom, Head(paths)).cells \o Row(atom, Tail(paths)).cells]

\* the outer loop: the lines of the items
RECURSIVE Rows(_, _)
Rows(items, paths) ==
    IF items = <<>> THEN [err |-> NoErr, out |-> <<>>]
    ELSE IF Row(Head(items), paths).err # NoErr
    THEN [err |-> Row(Head(items), paths).err, out |-> <<>>]
    ELSE IF Rows(Tail(items), paths).err # NoErr THEN Rows(Tail(items), paths)
    ELSE [err |-> NoErr,
          out |-> Join(Row(Head(items), paths).cells, <<"\t">>) \o <<"\n">>
                     \o Rows(Tail(items), paths).out]

\* the first loop: the headers and the paths of the columns
RECURSIVE Columns(_)
Columns(columns) ==
    IF columns = <<>> THEN [err |-> NoErr, headers |-> <<>>, paths |-> <<>>]
    ELSE IF Len(Split(Head(columns), ":")) # 2
    THEN [err |-> Err("invalid custom column format",
                      IF Head(columns) = <<>> THEN "" ELSE Head(columns)[1]),
          headers |-> <<>>, paths |-> <<>>]
    ELSE IF Columns(Tail(columns)).err # NoErr THEN Columns(Tail(columns))
    ELSE [err |-> NoErr,
          headers |-> <<Split(Head(columns), ":")[1]>> \o Columns(Tail(columns)).headers,
          paths |-> <<Split(Head(columns), ":")[2]>> \o Columns(Tail(columns)).paths]

FmtCustomColumns(items, customColumns) ==
    LET cols == Columns(Split(customColumns, ","))
        rows == Rows(items, cols.paths)
    IN  IF cols.err # NoErr THEN [out |-> <<>>, err |-> cols.err]
        ELSE IF rows.err # NoErr THEN [out |-> <<>>, err |-> rows.err]
        ELSE [out |-> Join(cols.headers, <<"\t">>) \o <<"\n">> \o rows.out,
              err |-> NoErr]

(***************************************************************************)
(* getResources.                                                           *)
(***************************************************************************)
\* The response of a handler, with what the checks need of its locals: the answer of
\* its discovery call (lists, disc), the coordinates resolved (gvr) and, for
\* applyResource, the number of the document it returned at (doc) and the YAML of
\* the objects the server had answered its apply requests with (applied).
Response(op, args, disc, gvr, err, out) ==
    [op |-> op, args |-> args, lists |-> disc.lists, disc |-> disc.err, gvr |-> gvr,
     err |-> err, out |-> out, doc |-> 0, applied |-> <<>>]

NoDiscovery == [lists |-> <<>>, err |-> ""]

\* the list options without the label selector
listOptionsEmpty(args) == ""

\* listOptions: metav1.ListOptions{} with the label selector set when one is given
listOptions(args) == IF args.LabelSelector # "" THEN args.LabelSelector ELSE ""

\* the request of the branch for a name, carrying the label selector as an option
GetRequestSelecting(args, gvr) ==
    [verb |-> "get", gvr |-> gvr,
     ns |-> IF args.Namespace # "" THEN args.Namespace ELSE "",
     name |-> args.Name, opt |-> listOptions(args), body |-> <<>>]

\* the request of the branch args.Name != "": a Get with metav1.GetOptions{}
GetRequest(args, gvr) ==
    [verb |-> "get", gvr |-> gvr,
     ns |-> IF args.Namespace # "" THEN args.Namespace ELSE "",
     name |-> args.Name, opt |-> "", body |-> <<>>]

\* the request of the other branch: a List with listOptions
ListRequest(args, gvr) ==
    [verb |-> "list", gvr |-> gvr,
     ns |-> IF args.Namespace # "" THEN args.Namespace ELSE "",
     name |-> "", opt |-> listOptions(args), body |-> <<>>]

\* getResources from the answer of findGVR's discovery call on: cl and srv are the
\* cluster and its objects when the request arrives
getResources(cl, srv, args, disc, fail) ==
    LET r == findGVR(disc, args.Resource)
        req == IF args.Name # ""
               THEN GetRequest(args, r.gvr)
               ELSE ListRequest(args, r.gvr)
        resp == Dyn(cl, srv, req, fail)
    IN  IF r.err # NoErr THEN
            [trace |-> <<DiscoveryRequest>>, server |-> srv,
             result |-> Response("get", args, disc, NoGVR, r.err, <<>>)]
        ELSE IF resp.err # NoErr THEN
            [trace |-> <<DiscoveryRequest>> \o Sent(resp, req), server |-> resp.server,
             result |-> Response("get", args, disc, r.gvr, resp.err, <<>>)]
        ELSE IF args.CustomColumns # <<>> THEN
            [trace |-> <<DiscoveryRequest>> \o Sent(resp, req), server |-> resp.server,
             result |-> Response("get", args, disc, r.gvr,
                                 FmtCustomColumns(resp.items, args.CustomColumns).err,
                                 FmtCustomColumns(resp.items, args.CustomColumns).out)]
        ELSE
            [trace |-> <<DiscoveryRequest>> \o Sent(resp, req), server |-> resp.server,
             result |-> Response("get", args, disc, r.gvr, NoErr,
                                 Join(YamlDocs(resp.items), <<"---", "\n">>))]

(***************************************************************************)
(* deleteResource.                                                         *)
(***************************************************************************)
\* the confirmation naming the plural of the resolved coordinates
ConfirmationPlural(args, gvr) ==
    <<"Resource ", gvr.Resource, "/", args.Name, " deleted.">>

\* fmt.Sprintf("Resource %s/%s deleted.", args.Resource, args.Name)
Confirmation(args, gvr) ==
    <<"Resource ", args.Resource, "/", args.Name, " deleted.">>

\* deleteResource dropping the error of the delete request
deleteResourceUnchecked(cl, srv, args, disc, fail) ==
    LET r == findGVR(disc, args.Resource)
        req == [verb |-> "delete", gvr |-> r.gvr,
                ns |-> IF args.Namespace # "" THEN args.Namespace ELSE "",
                name |-> args.Name, opt |-> "", body |-> <<>>]
        resp == Dyn(cl, srv, req, fail)
    IN  IF r.err # NoErr THEN
            [trace |-> <<DiscoveryRequest>>, server |-> srv,
             result |-> Response("delete", args, disc, NoGVR, r.err, <<>>)]
        ELSE
            [trace |-> <<DiscoveryRequest>> \o Sent(resp, req), server |-> resp.server,
             result |-> Response("delete", args, disc, r.gvr, NoErr,
                                 Confirmation(args, r.gvr))]

\* deleteResource from the answer of findGVR's discovery call on
deleteResource(cl, srv, args, disc, fail) ==
    LET r == findGVR(disc, args.Resource)
        req == [verb |-> "delete", gvr |-> r.gvr,
                ns |-> IF args.Namespace # "" THEN args.Namespace ELSE "",
                name |-> args.Name, opt |-> "", body |-> <<>>]
        resp == Dyn(cl, srv, req, fail)
    IN  IF r.err # NoErr THEN
            [trace |-> <<DiscoveryRequest>>, server |-> srv,
             result |-> Response("delete", args, disc, NoGVR, r.err, <<>>)]
        ELSE IF resp.err # NoErr THEN
            [trace |-> <<DiscoveryRequest>> \o Sent(resp, req), server |-> resp.server,
             result |-> Response("delete", args, disc, r.gvr, resp.err, <<>>)]
        ELSE
            [trace |-> <<DiscoveryRequest>> \o Sent(resp, req), server |-> resp.server,
             result |-> Response("delete", args, disc, r.gvr, NoErr,
                                 Confirmation(args, r.gvr))]

(***************************************************************************)
(* patchResource.                                                          *)
(***************************************************************************)
\* the switch on the patch type with a default that keeps the strategic merge patch
PatchTypeOfLenient(patchType) ==
    CASE patchType = "json" -> [ok |-> TRUE, type |-> "application/json-patch+json"]
      [] patchType = "merge" -> [ok |-> TRUE, type |-> "application/merge-patch+json"]
      [] OTHER -> [ok |-> TRUE, type |-> "application/strategic-merge-patch+json"]

\* the switch on the patch type with the merge patch for the empty patch type
PatchTypeOfEmptyMerge(patchType) ==
    CASE patchType = "json" -> [ok |-> TRUE, type |-> "application/json-patch+json"]
      [] patchType = "merge" -> [ok |-> TRUE, type |-> "application/merge-patch+json"]
      [] patchType = "strategic" ->
           [ok |-> TRUE, type |-> "application/strategic-merge-patch+json"]
      [] patchType = "" -> [ok |-> TRUE, type |-> "application/merge-patch+json"]
      [] OTHER -> [ok |-> FALSE, type |-> ""]

\* the switch on args.PatchType
PatchTypeOf(patchType) ==
    CASE patchType = "json" -> [ok |-> TRUE, type |-> "application/json-patch+json"]
      [] patchType = "merge" -> [ok |-> TRUE, type |-> "application/merge-patch+json"]
      [] patchType = "strategic" ->
           [ok |-> TRUE, type |-> "application/strategic-merge-patch+json"]
      [] patchType = "" ->
           [ok |-> TRUE, type |-> "application/strategic-merge-patch+json"]
      [] OTHER -> [ok |-> FALSE, type |-> ""]

\* patchResource from the answer of findGVR's discovery call on
patchResource(cl, srv, args, disc, fail) ==
    LET r == findGVR(disc, args.Resource)
        pt == PatchTypeOf(args.PatchType)
        patchBytes == YAMLToJSON(args.Patch)
        req == [verb |-> "patch", gvr |-> r.gvr,
                ns |-> IF args.Namespace # "" THEN args.Namespace ELSE "",
                name |-> args.Name, opt |-> pt.type, body |-> patchBytes.json]
        resp == Dyn(cl, srv, req, fail)
    IN  IF r.err # NoErr THEN
            [trace |-> <<DiscoveryRequest>>, server |-> srv,
             result |-> Response("patch", args, disc, NoGVR, r.err, <<>>)]
        ELSE IF ~pt.ok THEN
            [trace |-> <<DiscoveryRequest>>, server |-> srv,
             result |-> Response("patch", args, disc, r.gvr,
                                 Err("invalid patch type", args.PatchType), <<>>)]
        ELSE IF patchBytes.err # NoErr THEN
            [trace |-> <<DiscoveryRequest>>, server |-> srv,
             result |-> Response("patch", args, disc, r.gvr,
                                 Err("failed to convert patch from YAML to JSON",
                                     patchBytes.err.arg), <<>>)]
        ELSE IF resp.err # NoErr THEN
            [trace |-> <<DiscoveryRequest>> \o Sent(resp, req), server |-> resp.server,
             result |-> Response("patch", args, disc, r.gvr, resp.err, <<>>)]
        ELSE
            [trace |-> <<DiscoveryRequest>> \o Sent(resp, req), server |-> resp.server,
             result |-> Response("patch", args, disc, r.gvr, NoErr,
                                 JSONToYAML(Marshal(resp.items[1])))]

(***************************************************************************)
(* applyResource.                                                          *)
(***************************************************************************)
IsSpace(atom) == atom \in {"\n", " ", "  "}

\* strings.TrimSpace
RECURSIVE TrimSpace(_)
TrimSpace(text) ==
    IF text = <<>> THEN <<>>
    ELSE IF IsSpace(Head(text)) THEN TrimSpace(Tail(text))
    ELSE IF IsSpace(text[Len(text)]) THEN TrimSpace(SubSeq(text, 1, Len(text) - 1))
    ELSE text

\* obj.GroupVersionKind(): apiVersion parsed, with the kind
GroupVersionKind(atom) ==
    LET gv == ParseGroupVersion(ObjectOf(atom).apiVersion)
    IN  [Group |-> gv.Group, Version |-> gv.Version, Kind |-> ObjectOf(atom).kind]

NotLoaded == [valid |-> FALSE, lists |-> <<>>]

\* no discovery call fails
AllGroups == [total |-> FALSE, failed |-> {}]

\* h.mapper.RESTMapping(gvk.GroupKind(), gvk.Version) of the deferred discovery REST
\* mapper over memory.NewMemCacheClient(dc): discovery is fetched when the cache is
\* not populated, and a populated cache is Fresh(), so a lookup that misses is not
\* retried against the server.  A lookup without a version is one for the versions
\* of the group, of which the clusters here serve one each.
RESTMapping(cl, mc, md, gvk) ==
    LET load == ~mc.valid
        mc1 == IF load /\ ~md.total
               THEN [valid |-> TRUE, lists |-> Retrieved(cl, md.failed, 1)]
               ELSE mc
        hits == { e \in ServedResources(mc1.lists) :
                    /\ e.gvr.Group = gvk.Group
                    /\ gvk.Version \in {"", e.gvr.Version}
                    /\ e.Kind = gvk.Kind }
        sent == IF load THEN <<DiscoveryRequest>> ELSE <<>>
    IN  IF load /\ md.total THEN
            [sent |-> sent, mc |-> mc, err |-> Err("discovery", "unavailable"),
             gvr |-> NoGVR, namespaced |-> FALSE]
        ELSE IF hits = {} THEN
            [sent |-> sent, mc |-> mc1, err |-> Err("NoMatch", gvk.Kind),
             gvr |-> NoGVR, namespaced |-> FALSE]
        ELSE LET e == CHOOSE h \in hits : TRUE
             IN  [sent |-> sent, mc |-> mc1, err |-> NoErr,
                  gvr |-> e.gvr, namespaced |-> e.Namespaced]

AppliesSent(tr) == Len(SelectSeq(tr, LAMBDA q : q.verb = "apply"))

\* metav1.ApplyOptions{FieldManager: "kubeapi-mcp", Force: true}
ApplyOptions == "FieldManager=kubeapi-mcp,Force=true"

PartOutcome(sent, srv, mc, err, yaml) ==
    [sent |-> sent, server |-> srv, mapperCache |-> mc, err |-> err, yaml |-> yaml]

\* the error of a request made with a context that is done
Canceled == Err("context", "context canceled")

\* a dynamic client that does not look at the context of a call
DynCtxIgnored(ctx, cl, srv, req, fail) == Dyn(cl, srv, req, fail)

\* One call of the dynamic client with the context of the handler: when the context
\* is done already, the call returns its error and nothing reaches the server.
DynCtx(ctx, cl, srv, req, fail) ==
    IF ctx = "done" /\ req.name # ""
    THEN [sent |-> FALSE, err |-> Canceled, items |-> <<>>, server |-> srv]
    ELSE Dyn(cl, srv, req, fail)

\* The body of the loop of applyResource for one non-blank part: the requests it
\* sends, the server and the mapper cache after it, and the error it returns with or
\* the YAML it appends to appliedYamls.  md is what the mapper's discovery meets if
\* it runs; fail says that the server rejects the apply request; ctx is the context
\* of the handler, live or done.
applyPart(cl, srv, mc, part, md, fail, ctx) ==
    LET jsonData == YAMLToJSON(part)
        u == UnmarshalJSON(jsonData.json)
        gvk == GroupVersionKind(u.obj)
        mapping == RESTMapping(cl, mc, md, gvk)
        namespace == ObjectOf(u.obj).namespace
        name == ObjectOf(u.obj).name
        req == [verb |-> "apply", gvr |-> mapping.gvr,
                ns |-> IF mapping.namespaced THEN namespace ELSE "",
                name |-> name, opt |-> ApplyOptions, body |-> Marshal(u.obj)]
        resp == DynCtx(ctx, cl, srv, req, fail)
    IN  IF jsonData.err # NoErr THEN
            PartOutcome(<<>>, srv, mc,
                        Err("failed to convert manifest from YAML to JSON", jsonData.err.arg),
                        <<>>)
        ELSE IF u.err # NoErr THEN
            PartOutcome(<<>>, srv, mc, Err("failed to unmarshal manifest", u.err.arg), <<>>)
        ELSE IF mapping.err # NoErr THEN
            PartOutcome(mapping.sent, srv, mapping.mc,
                        Err("failed to get REST mapping", mapping.err.arg), <<>>)
        ELSE IF resp.err # NoErr THEN
            PartOutcome(mapping.sent \o Sent(resp, req), resp.server, mapping.mc,
                        resp.err, <<>>)
        ELSE
            PartOutcome(mapping.sent \o Sent(resp, req), resp.server, mapping.mc,
                        NoErr, JSONToYAML(Marshal(resp.items[1])))

(***************************************************************************)
(* apiResources.                                                           *)
(***************************************************************************)
HeaderRow ==
    [NAME |-> "NAME", SHORTNAMES |-> <<"SHORTNAMES">>, APIVERSION |-> <<"APIVERSION">>,
     NAMESPACED |-> "NAMESPACED", KIND |-> "KIND"]

RECURSIVE ResourceRows(_, _, _)
ResourceRows(lists, i, j) ==
    IF i > Len(lists) THEN <<>>
    ELSE IF ~ParseGroupVersion(lists[i].GroupVersion).ok
            \/ j > Len(lists[i].APIResources) THEN
        ResourceRows(lists, i + 1, 1)
    ELSE
        <<[NAME |-> lists[i].APIResources[j].Name,
           SHORTNAMES |-> lists[i].APIResources[j].ShortNames,
           APIVERSION |-> lists[i].GroupVersion,
           NAMESPACED |-> IF lists[i].APIResources[j].Namespaced THEN "true" ELSE "false",
           KIND |-> lists[i].APIResources[j].Kind]>>
        \o ResourceRows(lists, i, j + 1)

apiResources(cl, d) ==
    LET disc == ServerGroupsAndResources(cl, d)
    IN  IF disc.err \notin {"nil", "ErrGroupDiscoveryFailed"} THEN
            [trace |-> <<DiscoveryRequest>>,
             result |-> Response("api-resources", <<>>, disc, NoGVR,
                                 Err("failed to get server groups and resources", disc.err),
                                 <<>>)]
        ELSE
            [trace |-> <<DiscoveryRequest>>,
             result |-> Response("api-resources", <<>>, disc, NoGVR, NoErr,
                                 <<HeaderRow>> \o ResourceRows(disc.lists, 1, 1))]

\* no response is pending; applyResource is not running; no other handler is
Idle == [op |-> "idle"]
NoCall == [pc |-> "idle"]
NoRendering == [obj |-> {}, yaml |-> <<>>]
NoApply == [active |-> FALSE, args |-> [Manifest |-> <<>>], parts |-> <<>>,
            yamls |-> <<>>, doc |-> 0, ctx |-> "live"]

(***************************************************************************)
(* The inputs of the tools.                                                *)
(***************************************************************************)
Identifiers == {"pods", "pod", "po", "Event", "nodes", "widgets", "Pods"}
Names == {"", "a"}
Namespaces == {"", "default"}
Selectors == {"", "app=x"}
PatchTypes == {"", "strategic", "merge", "json", "JSON"}

\* the columns of the model: the name and the kind of an object, a key that no
\* object has under a key that every object has, a key under a key that no object
\* has, a filter that selects nothing among the containers of a pod, a path with a
\* bracket that is not closed, and a column without path
ColumnKinds == {"name", "kind", "missing", "deep", "filter", "bad", "nocolon"}

ColumnText(c) ==
    CASE c = "name" -> <<"NAME", ":", "metadata", "name">>
      [] c = "kind" -> <<"KIND", ":", "kind">>
      [] c = "missing" -> <<"IMG", ":", "spec", "nonexistent">>
      [] c = "deep" -> <<"PHASE", ":", "status", "phase">>
      [] c = "filter" -> <<"MAIN", ":", "spec", "containers", "[?]", "image">>
      [] c = "bad" -> <<"BAD", ":", "metadata", "[">>
      [] c = "nocolon" -> <<"NAME">>

ColumnSpecOf(cs) == Join([i \in 1..Len(cs) |-> ColumnText(cs[i])], <<",">>)

\* the column specifications getResources is called with
GetColumnSpecs == { <<>>, ColumnSpecOf(<<"name", "kind">>), ColumnSpecOf(<<"bad">>) }

\* a manifest: up to MaxDocs segments, each a document or blank, joined by "---";
\* and manifests with a widget, a mapping without kind and a quoted "---"
Segments == {"podA", "nodeA", "bad", "blank"}

OtherSegments ==
    { <<"widgetA">>, <<"podA", "widgetA">>, <<"nokind">>, <<"podA", "nokind">>,
      <<"quoted">>, <<"podA", "quoted">>, <<"podC">>, <<"podA", "podC">> }

SegmentText(seg) ==
    CASE seg = "blank" -> <<"\n">>
      [] seg = "quoted" -> <<"\n">> \o QuotedDoc \o <<"\n">>
      [] OTHER -> <<"\n", seg, "\n">>

ManifestOf(segs) == Join([i \in 1..Len(segs) |-> SegmentText(segs[i])], <<"---">>)

Manifests == { ManifestOf(segs) : segs \in SeqsUpTo(Segments, MaxDocs) \cup OtherSegments }

\* the documents of a manifest, as the text between its separators shows them
DocsOf(manifest) ==
    SelectSeq(Split(manifest, "---"), LAMBDA part : \E i \in 1..Len(part) : ~IsSpace(part[i]))

(***************************************************************************)
(* The state machine.                                                      *)
(***************************************************************************)
NoNote == [id |-> "", gvr |-> NoGVR, groups |-> <<>>]
NoFail == [err |-> NoErr, doc |-> 0]

(***************************************************************************)
(* Install: the tools the server offers.                                   *)
(***************************************************************************)
\* var ExtraTools = true
ExtraTools == TRUE

\* the configurations Install is called with: c.ReadOnly() is all it asks of one
ReadWrite == [ReadOnly |-> FALSE]
Configs == [ReadOnly : BOOLEAN]

\* the tools registered before the configuration is looked at
AlwaysTools ==
    {"kube_get_resources", "kube_api_resources", "kube_get_pod_logs", "kube_can_i",
     "gke_read_logs", "gke_get_log_schema", "gke_get_cluster", "gke_list_clusters",
     "gke_get_operation"}

\* the tools registered inside `if !c.ReadOnly()`
WriteTools == {"kube_apply_resource", "kube_delete_resource", "kube_patch_resource"}

\* the tools registered inside `if ExtraTools`, itself inside `if !c.ReadOnly()`
ExtraToolNames ==
    {"gke_update_node_pool", "gke_create_cluster", "gke_update_cluster",
     "gke_delete_cluster", "gke_fetch_cluster_upgrade_info", "gke_create_node_pool",
     "gke_update_master", "gke_start_ip_rotation", "gke_set_maintenance_policy",
     "gke_get_server_config", "gke_get_open_id_config", "gke_get_json_web_keys",
     "gke_list_usable_subnetworks", "gke_check_autopilot_compatibility",
     "gke_complete_convert_to_autopilot", "gke_complete_control_plane_upgrade"}

\* Install registering every tool whatever the configuration
InstallAll(c) ==
    [c |-> c, tools |-> AlwaysTools \cup WriteTools \cup ExtraToolNames]

\* Install(ctx, s, c): the tools added to the server
Install(c) ==
    [c |-> c,
     tools |-> AlwaysTools \cup
               (IF ~c.ReadOnly
                THEN WriteTools \cup (IF ExtraTools THEN ExtraToolNames ELSE {})
                ELSE {})]

\* the calls that run side by side, and the locals of one that has not begun
Workers == 1..MaxWorkers

IdleWorker == [pc |-> "idle", doc |-> "", delegate |-> NotLoaded, sent |-> <<>>,
               err |-> NoErr, yaml |-> <<>>]

\* no call is followed: the next call made is the one followed
Ready == result.op = "idle" /\ ~apply.active /\ call.pc = "idle"

Init ==
    /\ cluster = BaseListing
    /\ server = {"podB"}
    /\ mapperCache = NotLoaded
    /\ trace = <<>>
    /\ result = Idle
    /\ apply = NoApply
    /\ noted = NoNote
    /\ notedFail = NoFail
    /\ workers = [w \in Workers |-> IdleWorker]
    /\ initMu = 0
    /\ installed = Install(ReadWrite)
    /\ call = NoCall
    /\ rendering = NoRendering

\* the arguments a call of each tool is made with: every identifier, with and
\* without name, namespace and label selector, and the pods in columns; every
\* identifier patched with the default and the strategic patch type, and a pod with
\* every patch type and patch
GetArgs ==
    [Resource : Identifiers, Name : Names, Namespace : Namespaces,
     LabelSelector : Selectors, CustomColumns : {<<>>}]
    \cup [Resource : {"pods"}, Name : Names, Namespace : {"default"},
          LabelSelector : {""}, CustomColumns : GetColumnSpecs]
DeleteArgs == [Resource : Identifiers, Name : Names, Namespace : Namespaces]
PatchArgs ==
    [Resource : Identifiers, Name : Names, Namespace : Namespaces,
     Patch : {<<"patchOK">>}, PatchType : {"", "strategic"}]
    \cup [Resource : {"pods"}, Name : {"a"}, Namespace : {"default"},
          Patch : { <<p>> : p \in PatchAtoms }, PatchType : PatchTypes]

\* getResources is called: findGVR makes its discovery call and has the answer
GetResourcesOf(Args) ==
    /\ Ready
    /\ "kube_get_resources" \in installed.tools
    /\ \E args \in Args, d \in DiscoveryOutcomes(cluster) :
          \E disc \in ServerPreferredResources(cluster, d) :
             call' = [pc |-> "found", op |-> "get", args |-> args, disc |-> disc]
    /\ trace' = <<DiscoveryRequest>>
    /\ UNCHANGED <<cluster, server, mapperCache, result, apply, noted, notedFail, workers,
                   initMu, installed, rendering>>

\* the handler goes on from the answer: it returns an error, or sends its request
\* to the cluster as the cluster is by now and returns what comes of it
GetResourcesRequest ==
    /\ call.pc = "found"
    /\ call.op = "get"
    /\ \E fail \in BOOLEAN :
          LET o == getResources(cluster, server, call.args, call.disc, fail)
          IN  /\ trace' = o.trace
              /\ result' = o.result
              /\ server' = o.server
    /\ call' = NoCall
    /\ UNCHANGED <<cluster, mapperCache, apply, noted, notedFail, workers, initMu, installed, rendering>>

\* deleteResource is called: findGVR makes its discovery call and has the answer
DeleteResourceOf(Args) ==
    /\ Ready
    /\ "kube_delete_resource" \in installed.tools
    /\ \E args \in Args, d \in DiscoveryOutcomes(cluster) :
          \E disc \in ServerPreferredResources(cluster, d) :
             call' = [pc |-> "found", op |-> "delete", args |-> args, disc |-> disc]
    /\ trace' = <<DiscoveryRequest>>
    /\ UNCHANGED <<cluster, server, mapperCache, result, apply, noted, notedFail, workers,
                   initMu, installed, rendering>>

\* the handler goes on from the answer: it returns an error, or sends its request
\* to the cluster as the cluster is by now and returns what comes of it
DeleteResourceRequest ==
    /\ call.pc = "found"
    /\ call.op = "delete"
    /\ \E fail \in BOOLEAN :
          LET o == deleteResource(cluster, server, call.args, call.disc, fail)
          IN  /\ trace' = o.trace
              /\ result' = o.result
              /\ server' = o.server
    /\ call' = NoCall
    /\ UNCHANGED <<cluster, mapperCache, apply, noted, notedFail, workers, initMu, installed, rendering>>

\* patchResource is called: findGVR makes its discovery call and has the answer
PatchResourceOf(Args) ==
    /\ Ready
    /\ "kube_patch_resource" \in installed.tools
    /\ \E args \in Args, d \in DiscoveryOutcomes(cluster) :
          \E disc \in ServerPreferredResources(cluster, d) :
             call' = [pc |-> "found", op |-> "patch", args |-> args, disc |-> disc]
    /\ trace' = <<DiscoveryRequest>>
    /\ UNCHANGED <<cluster, server, mapperCache, result, apply, noted, notedFail, workers,
                   initMu, installed, rendering>>

\* the handler goes on from the answer: it returns an error, or sends its request
\* to the cluster as the cluster is by now and returns what comes of it
PatchResourceRequest ==
    /\ call.pc = "found"
    /\ call.op = "patch"
    /\ \E fail \in BOOLEAN :
          LET o == patchResource(cluster, server, call.args, call.disc, fail)
          IN  /\ trace' = o.trace
              /\ result' = o.result
              /\ server' = o.server
    /\ call' = NoCall
    /\ UNCHANGED <<cluster, mapperCache, apply, noted, notedFail, workers, initMu, installed, rendering>>

\* applyResource is entered: the manifest is split and nothing is applied yet
ApplyResourceOf(Ms) ==
    /\ Ready
    /\ "kube_apply_resource" \in installed.tools
    /\ \E manifest \in Ms :
          apply' = [active |-> TRUE, args |-> [Manifest |-> manifest],
                    parts |-> Split(manifest, "---"), yamls |-> <<>>, doc |-> 0,
                    ctx |-> "live"]
    /\ trace' = <<>>
    /\ UNCHANGED <<cluster, server, mapperCache, result, noted, notedFail, workers, initMu, installed, call, rendering>>

GetResources == GetResourcesOf(GetArgs)
DeleteResource == DeleteResourceOf(DeleteArgs)
PatchResource == PatchResourceOf(PatchArgs)
ApplyResource == ApplyResourceOf(Manifests)

\* the loop going on to the next part after an error
AfterPartKeepGoing(ap, o) ==
    [apply |-> [ap EXCEPT !.parts = Tail(ap.parts),
                          !.yamls = IF o.err # NoErr THEN ap.yamls
                                    ELSE ap.yamls \o <<o.yaml>>,
                          !.doc = ap.doc + 1],
     result |-> Idle]

\* the loop putting the YAML of a part before those it already has
AfterPartPrepend(ap, o) ==
    IF o.err # NoErr
    THEN [apply |-> NoApply,
          result |-> [Response("apply", ap.args, NoDiscovery, NoGVR, o.err, <<>>)
                         EXCEPT !.doc = ap.doc + 1, !.applied = ap.yamls]]
    ELSE [apply |-> [ap EXCEPT !.parts = Tail(ap.parts),
                               !.yamls = <<o.yaml>> \o ap.yamls,
                               !.doc = ap.doc + 1],
          result |-> Idle]

\* the loop returning, with the error, the YAML of the parts applied before it
AfterPartPartial(ap, o) ==
    IF o.err # NoErr
    THEN [apply |-> NoApply,
          result |-> [Response("apply", ap.args, NoDiscovery, NoGVR, o.err,
                               Join(ap.yamls, <<"---", "\n">>))
                         EXCEPT !.doc = ap.doc + 1, !.applied = ap.yamls]]
    ELSE [apply |-> [ap EXCEPT !.parts = Tail(ap.parts),
                               !.yamls = ap.yamls \o <<o.yaml>>,
                               !.doc = ap.doc + 1],
          result |-> Idle]

\* what the loop does with the outcome of a part: the first error returns from the
\* handler, otherwise the YAML is kept and the loop goes on
AfterPart(ap, o) ==
    IF o.err # NoErr
    THEN [apply |-> NoApply,
          result |-> [Response("apply", ap.args, NoDiscovery, NoGVR, o.err, <<>>)
                         EXCEPT !.doc = ap.doc + 1, !.applied = ap.yamls]]
    ELSE [apply |-> [ap EXCEPT !.parts = Tail(ap.parts),
                               !.yamls = ap.yamls \o <<o.yaml>>,
                               !.doc = ap.doc + 1],
          result |-> Idle]

\* a part that is an object waits in h.mapper.RESTMapping for the mapper
HasObject(part) ==
    /\ part # <<>>
    /\ YAMLToJSON(part).err = NoErr
    /\ UnmarshalJSON(YAMLToJSON(part).json).err = NoErr

\* h.mapper.RESTMapping finds the mapper without discovery data and fetches it:
\* the data is kept and the iteration goes on to look the mapping up, or the
\* fetch fails and the handler returns the error
ApplyLoad ==
    /\ apply.active
    /\ apply.parts # <<>>
    /\ HasObject(TrimSpace(Head(apply.parts)))
    /\ ~mapperCache.valid
    /\ \E md \in DiscoveryOutcomes(cluster) :
          LET part == TrimSpace(Head(apply.parts))
              o == applyPart(cluster, server, mapperCache, part, md, FALSE, apply.ctx) IN
          /\ trace' = trace \o <<DiscoveryRequest>>
          /\ mapperCache' = o.mapperCache
          /\ IF md.total
             THEN /\ apply' = AfterPart(apply, o).apply
                  /\ result' = AfterPart(apply, o).result
             ELSE UNCHANGED <<apply, result>>
    /\ UNCHANGED <<cluster, server, noted, notedFail, workers, initMu, installed, call, rendering>>

\* one iteration of the loop, from the mapper's data on: a blank part is skipped; a
\* part that is no object returns its error; the mapping of any other is looked up
\* and its apply request sent
ApplyPart ==
    /\ apply.active
    /\ apply.parts # <<>>
    /\ HasObject(TrimSpace(Head(apply.parts))) => mapperCache.valid
    /\ LET part == TrimSpace(Head(apply.parts)) IN
       IF part = <<>> THEN
           /\ apply' = [apply EXCEPT !.parts = Tail(apply.parts)]
           /\ UNCHANGED <<server, mapperCache, trace, result>>
       ELSE
           \E fail \in BOOLEAN :
              LET o == applyPart(cluster, server, mapperCache, part, AllGroups, fail,
                                 apply.ctx) IN
              /\ trace' = trace \o o.sent
              /\ server' = o.server
              /\ mapperCache' = o.mapperCache
              /\ apply' = AfterPart(apply, o).apply
              /\ result' = AfterPart(apply, o).result
    /\ UNCHANGED <<cluster, noted, notedFail, workers, initMu, installed, call, rendering>>

\* the loop is over: the YAML of the applied objects is returned
ApplyReturn ==
    /\ apply.active
    /\ apply.parts = <<>>
    /\ result' = [Response("apply", apply.args, NoDiscovery, NoGVR, NoErr,
                           Join(apply.yamls, <<"---", "\n">>))
                     EXCEPT !.doc = apply.doc, !.applied = apply.yamls]
    /\ apply' = NoApply
    /\ UNCHANGED <<cluster, server, mapperCache, trace, noted, notedFail, workers, initMu, installed, call, rendering>>

ApiResources ==
    /\ Ready
    /\ "kube_api_resources" \in installed.tools
    /\ \E d \in DiscoveryOutcomes(cluster) :
          LET o == apiResources(cluster, d)
          IN  /\ trace' = o.trace
              /\ result' = o.result
    /\ UNCHANGED <<cluster, server, mapperCache, apply, noted, notedFail, workers, initMu, installed, call, rendering>>

\* the response reaches the caller
Deliver ==
    /\ result.op # "idle"
    /\ result' = Idle
    /\ trace' = <<>>
    /\ UNCHANGED <<cluster, server, mapperCache, apply, noted, notedFail, workers, initMu, installed, call, rendering>>

\* a custom resource definition is installed, at any time: the discovery listing
\* changes and a new discovery epoch begins
InstallCRD ==
    /\ cluster = BaseListing
    /\ cluster' = CRDListing
    /\ noted' = NoNote
    /\ UNCHANGED <<server, mapperCache, trace, result, apply, notedFail, workers, initMu, installed, call, rendering>>

(***************************************************************************)
(* The calls that run beside the one followed.  Nothing in handlers or in  *)
(* Install keeps two calls apart, so at any step of the call followed      *)
(* another call of deleteResource can have its delete request carried out, *)
(* another call of applyResource can have the mapper fetch its discovery   *)
(* data or have its apply request carried out.                             *)
(***************************************************************************)
\* the objects the other calls delete and apply
OtherObjects == {"podA", "podB", "nodeA"}

\* the delete request of another call of deleteResource is carried out
OtherDelete ==
    /\ "kube_delete_resource" \in installed.tools
    /\ \E x \in OtherObjects :
          LET req == [verb |-> "delete", gvr |-> Location(x).gvr, ns |-> Location(x).ns,
                      name |-> Location(x).name, opt |-> "", body |-> <<>>]
          IN  /\ Dyn(cluster, server, req, FALSE).err = NoErr
              /\ server' = Dyn(cluster, server, req, FALSE).server
    /\ UNCHANGED <<cluster, mapperCache, trace, result, apply, noted, notedFail, workers,
                   initMu, installed, call, rendering>>

\* the mapper fetches its discovery data in another call of applyResource
OtherLoad ==
    /\ "kube_apply_resource" \in installed.tools
    /\ ~mapperCache.valid
    /\ \E md \in DiscoveryOutcomes(cluster) :
          /\ ~md.total
          /\ mapperCache' = RESTMapping(cluster, mapperCache, md,
                                        GroupVersionKind("podA")).mc
    /\ UNCHANGED <<cluster, server, trace, result, apply, noted, notedFail, workers,
                   initMu, installed, call, rendering>>

\* the apply request of another call of applyResource is carried out
OtherApply ==
    /\ "kube_apply_resource" \in installed.tools
    /\ mapperCache.valid
    /\ \E x \in OtherObjects :
          LET o == applyPart(cluster, server, mapperCache, <<x>>, AllGroups, FALSE, "live")
          IN  /\ o.err = NoErr
              /\ x \notin server
              /\ server' = o.server
    /\ UNCHANGED <<cluster, mapperCache, trace, result, apply, noted, notedFail, workers,
                   initMu, installed, call, rendering>>

\* the calls of getResources, deleteResource, patchResource and apiResources
Next ==
    \/ GetResources
    \/ GetResourcesRequest
    \/ DeleteResource
    \/ DeleteResourceRequest
    \/ PatchResource
    \/ PatchResourceRequest
    \/ ApiResources
    \/ Deliver
    \/ InstallCRD
    \/ OtherDelete
    \/ OtherLoad
    \/ OtherApply

Spec == Init /\ [][Next]_vars

\* the calls of applyResource, with calls of the other tools for a pod and a widget
ToolGetArgs == [Resource : {"pods", "widgets"}, Name : Names, Namespace : {"default"},
                LabelSelector : {""}, CustomColumns : {<<>>}]
ToolDeleteArgs == [Resource : {"pods"}, Name : {"a"}, Namespace : {"default"}]
ToolPatchArgs == [Resource : {"pods"}, Name : {"a"}, Namespace : {"default"},
                  Patch : { <<p>> : p \in PatchAtoms }, PatchType : {"merge"}]

NextApply ==
    \/ GetResourcesOf(ToolGetArgs)
    \/ GetResourcesRequest
    \/ DeleteResourceOf(ToolDeleteArgs)
    \/ DeleteResourceRequest
    \/ PatchResourceOf(ToolPatchArgs)
    \/ PatchResourceRequest
    \/ ApplyResource
    \/ ApplyLoad
    \/ ApplyPart
    \/ ApplyReturn
    \/ Deliver
    \/ InstallCRD
    \/ OtherDelete
    \/ OtherLoad
    \/ OtherApply

SpecApply == Init /\ [][NextApply]_vars

(***************************************************************************)
(* Two calls compared.  A response is gone once it is delivered, so a      *)
(* statement about two calls of a tool needs the earlier one remembered:   *)
(* noted keeps one resolution of the current discovery epoch, notedFail    *)
(* one failure of applyResource.  The calls of these specifications are    *)
(* made with fewer arguments, so that what is remembered can be any of     *)
(* them; of a resolution the groups its discovery call retrieved are       *)
(* remembered, not the order of the resources in their lists.              *)
(***************************************************************************)
Resolved == result.op \in {"get", "delete", "patch"} /\ result.gvr # NoGVR

\* the groups and versions of the lists of a listing
GroupsOf(lists) == [i \in 1..Len(lists) |-> lists[i].GroupVersion]

\* the response of a call that resolved its identifier is delivered and remembered
NoteResolution ==
    /\ Resolved
    /\ noted = NoNote
    /\ noted' = [id |-> result.args.Resource, gvr |-> result.gvr,
                 groups |-> GroupsOf(result.lists)]
    /\ result' = Idle
    /\ trace' = <<>>
    /\ UNCHANGED <<cluster, server, mapperCache, apply, notedFail, workers, initMu, installed, call, rendering>>

EpochIdentifiers == {"pods", "Event", "widgets"}
EpochGetArgs == [Resource : EpochIdentifiers, Name : {"a"}, Namespace : {"default"},
                 LabelSelector : {""}, CustomColumns : {<<>>}]
EpochDeleteArgs == [Resource : EpochIdentifiers, Name : {"a"}, Namespace : {"default"}]

NextEpoch ==
    \/ GetResourcesOf(EpochGetArgs)
    \/ GetResourcesRequest
    \/ DeleteResourceOf(EpochDeleteArgs)
    \/ DeleteResourceRequest
    \/ Deliver
    \/ InstallCRD
    \/ OtherDelete
    \/ OtherLoad
    \/ OtherApply
    \/ NoteResolution

SpecEpoch == Init /\ [][NextEpoch]_vars

\* the response of a call of applyResource that failed is delivered and remembered
NoteFailure ==
    /\ result.op = "apply"
    /\ result.err # NoErr
    /\ notedFail = NoFail
    /\ notedFail' = [err |-> result.err, doc |-> result.doc]
    /\ result' = Idle
    /\ trace' = <<>>
    /\ UNCHANGED <<cluster, server, mapperCache, apply, noted, workers, initMu, installed, call, rendering>>

FailureManifests == { ManifestOf(segs) : segs \in SeqsUpTo({"podA", "bad"}, MaxDocs) }

NextFailures ==
    \/ ApplyResourceOf(FailureManifests)
    \/ ApplyLoad
    \/ ApplyPart
    \/ ApplyReturn
    \/ Deliver
    \/ InstallCRD
    \/ OtherDelete
    \/ OtherLoad
    \/ OtherApply
    \/ NoteFailure

SpecFailures == Init /\ [][NextFailures]_vars

(***************************************************************************)
(* Cancellation.  The context of a call of applyResource can be cancelled  *)
(* or run out at any time: between two iterations of the loop, after which *)
(* every call made with it fails, or while the apply request of a part is  *)
(* in flight, which aborts the request; the server may or may not have     *)
(* carried an aborted request out.                                         *)
(***************************************************************************)
\* the context is done between two iterations of the loop
Cancel ==
    /\ apply.active
    /\ apply.ctx = "live"
    /\ apply' = [apply EXCEPT !.ctx = "done"]
    /\ UNCHANGED <<cluster, server, mapperCache, trace, result, noted, notedFail, workers, initMu, installed, call, rendering>>

\* one iteration of the loop, from the mapper's data on, whose apply request is in
\* flight when the context is done: the call returns the error of the context and
\* the handler returns it
ApplyPartAborted ==
    /\ apply.active
    /\ apply.ctx = "live"
    /\ apply.parts # <<>>
    /\ HasObject(TrimSpace(Head(apply.parts)))
    /\ mapperCache.valid
    /\ \E done \in BOOLEAN :
          LET part == TrimSpace(Head(apply.parts))
              o == applyPart(cluster, server, mapperCache, part, AllGroups, FALSE, "live")
              aborted == [o EXCEPT !.err = Canceled, !.yaml = <<>>]
          IN  /\ AppliesSent(o.sent) = 1
              /\ trace' = trace \o o.sent
              /\ server' = IF done THEN o.server ELSE server
              /\ mapperCache' = o.mapperCache
              /\ apply' = AfterPart(apply, aborted).apply
              /\ result' = AfterPart(apply, aborted).result
    /\ UNCHANGED <<cluster, noted, notedFail, workers, initMu, installed, call, rendering>>

\* the manifests of the calls that are cancelled
CancelSegments == {"podA", "nodeA", "bad", "blank"}

CancelManifests == { ManifestOf(segs) : segs \in SeqsUpTo(CancelSegments, MaxDocs) }

NextCancel ==
    \/ ApplyResourceOf(CancelManifests)
    \/ ApplyLoad
    \/ ApplyPart
    \/ ApplyPartAborted
    \/ OtherDelete
    \/ OtherLoad
    \/ OtherApply
    \/ Cancel
    \/ ApplyReturn
    \/ Deliver

SpecCancel == Init /\ [][NextCancel]_vars

(***************************************************************************)
(* Calls side by side.  The handlers share the fields of one handlers     *)
(* value; the only one of them with state that is written after Install    *)
(* is mapper, the deferred discovery REST mapper over the memory cache     *)
(* client, which takes its lock initMu to look for its delegate and to     *)
(* load it.  Each worker is one call of applyResource with a manifest of   *)
(* one document, cut at the places where it takes or gives the lock.       *)
(***************************************************************************)
\* a mapper that does not wait for its lock
initMuIgnored(mu) == TRUE

\* initMu.Lock() goes through when nobody holds the lock
initMuFree(mu) == mu = 0

\* the documents of the calls that run side by side
ConcurrentDocs == {"podA", "widgetA"}

\* applyResource is entered and has the object of its document in hand
Begin(w) ==
    /\ workers[w].pc = "idle"
    /\ "kube_apply_resource" \in installed.tools
    /\ \E doc \in ConcurrentDocs :
          workers' = [workers EXCEPT ![w] = [IdleWorker EXCEPT !.pc = "mapping",
                                                              !.doc = doc]]
    /\ UNCHANGED <<cluster, server, mapperCache, trace, result, apply, noted,
                   notedFail, initMu, installed, call, rendering>>

\* h.mapper.RESTMapping asks for the delegate: with the lock in hand it finds the
\* delegate, and gives the lock back, or finds none and goes on to load it
GetDelegate(w) ==
    /\ workers[w].pc = "mapping"
    /\ initMuFree(initMu)
    /\ IF mapperCache.valid
       THEN /\ workers' = [workers EXCEPT ![w].pc = "lookup",
                                          ![w].delegate = mapperCache]
            /\ initMu' = initMu
       ELSE /\ workers' = [workers EXCEPT ![w].pc = "load"]
            /\ initMu' = w
    /\ UNCHANGED <<cluster, server, mapperCache, trace, result, apply, noted,
                   notedFail, installed, call, rendering>>

\* the holder of the lock runs discovery, sets the delegate to what it retrieved,
\* and gives the lock back; when discovery is unavailable no delegate is set
LoadDelegate(w) ==
    /\ workers[w].pc = "load"
    /\ \E md \in DiscoveryOutcomes(cluster) :
          IF md.total
          THEN /\ workers' = [workers EXCEPT
                                 ![w].pc = "done",
                                 ![w].sent = <<DiscoveryRequest>>,
                                 ![w].err = Err("failed to get REST mapping", "unavailable")]
               /\ mapperCache' = mapperCache
          ELSE /\ mapperCache' = [valid |-> TRUE,
                                  lists |-> Retrieved(cluster, md.failed, 1)]
               /\ workers' = [workers EXCEPT
                                 ![w].pc = "lookup",
                                 ![w].sent = <<DiscoveryRequest>>,
                                 ![w].delegate = mapperCache']
    /\ initMu' = 0
    /\ UNCHANGED <<cluster, server, trace, result, apply, noted, notedFail, installed, call, rendering>>

\* the rest of the iteration: the mapping is looked up in the delegate, the apply
\* request is sent, and the handler has its error or its YAML
MapAndApply(w) ==
    /\ workers[w].pc = "lookup"
    /\ \E fail \in BOOLEAN :
          LET o == applyPart(cluster, server, workers[w].delegate, <<workers[w].doc>>,
                             AllGroups, fail, "live")
          IN  /\ server' = o.server
              /\ workers' = [workers EXCEPT ![w].pc = "done",
                                            ![w].sent = workers[w].sent \o o.sent,
                                            ![w].err = o.err,
                                            ![w].yaml = o.yaml]
    /\ UNCHANGED <<cluster, mapperCache, trace, result, apply, noted, notedFail,
                   initMu, installed, call, rendering>>

\* the handler returns to its caller
Return(w) ==
    /\ workers[w].pc = "done"
    /\ workers' = [workers EXCEPT ![w] = IdleWorker]
    /\ UNCHANGED <<cluster, server, mapperCache, trace, result, apply, noted,
                   notedFail, initMu, installed, call, rendering>>

NextConcurrent ==
    \/ \E w \in Workers : Begin(w)
    \/ \E w \in Workers : GetDelegate(w)
    \/ \E w \in Workers : LoadDelegate(w)
    \/ \E w \in Workers : MapAndApply(w)
    \/ \E w \in Workers : Return(w)
    \/ InstallCRD

SpecConcurrent == Init /\ [][NextConcurrent]_vars

(***************************************************************************)
(* What the properties below speak of.                                     *)
(***************************************************************************)
ApplyRequests(tr) == SelectSeq(tr, LAMBDA q : q.verb = "apply")

ResourceRequests(tr) == SelectSeq(tr, LAMBDA q : q.verb # "discovery")

\* the manifest of the call of applyResource that is running or has just returned
ManifestInHand ==
    IF apply.active THEN apply.args.Manifest
    ELSE IF result.op = "apply" THEN result.args.Manifest
    ELSE <<>>

\* what a document holds, blanks aside
DocAtom(doc) == TrimSpace(doc)[1]

\* text that is not YAML
Malformed(text) ==
    \/ \E i \in 1..Len(text) : text[i] \in {"bad", "patchBad"}
    \/ TrimSpace(text) \in {<<QuotedDoc[1]>>, <<QuotedDoc[3]>>}

\* the number of the first malformed document of a manifest, 0 when it has none
FirstMalformed(docs) ==
    IF \E i \in 1..Len(docs) : Malformed(docs[i])
    THEN CHOOSE i \in 1..Len(docs) :
            /\ Malformed(docs[i])
            /\ \A k \in 1..(i - 1) : ~Malformed(docs[k])
    ELSE 0

Resolving == result.op \in {"get", "delete", "patch"}

\* the places of a discovery listing an identifier matches, and the first of them
MatchPositions(lists, id) ==
    UNION { { <<i, j>> : j \in { k \in 1..Len(lists[i].APIResources) :
                LET r == lists[i].APIResources[k] IN
                \/ r.Kind = id
                \/ r.Name = id
                \/ r.SingularName = id
                \/ id \in { r.ShortNames[n] : n \in 1..Len(r.ShortNames) } } } :
            i \in 1..Len(lists) }

FirstPosition(lists, id) ==
    CHOOSE p \in MatchPositions(lists, id) :
        \A q \in MatchPositions(lists, id) :
            p[1] < q[1] \/ (p[1] = q[1] /\ p[2] <= q[2])

CoordinatesAt(lists, p) ==
    LET gv == lists[p[1]].GroupVersion IN
    [Group |-> IF Len(gv) = 2 THEN gv[1] ELSE "",
     Version |-> gv[Len(gv)],
     Resource |-> lists[p[1]].APIResources[p[2]].Name]

ScopeOf(gvr) == { r.Namespaced : r \in { x \in ServedResources(cluster) : x.gvr = gvr } }

(***************************************************************************)
(* Properties.                                                             *)
(***************************************************************************)

\* the apply requests of a call are those of the first documents of its manifest,
\* one each, in the order of the documents, and it sends nothing else but discovery
\* calls; the server has answered with its object the request of every document
\* the loop has left behind; a call that returns an error at a document has had
\* such an answer for every earlier document and has sent no request later than
\* the one of the failing document
AppliedInOrder ==
    LET docs == DocsOf(ManifestInHand)
        reqs == ApplyRequests(trace)
        n == Len(reqs)
        answered(yamls, k) ==
            /\ Len(yamls) = k
            /\ \A i \in 1..k : yamls[i] = JSONToYAML(Marshal(DocAtom(docs[i])))
    IN  (apply.active \/ result.op = "apply") =>
            /\ n <= Len(docs)
            /\ \A i \in 1..n : reqs[i].body = Marshal(DocAtom(docs[i]))
            /\ \A i \in 1..Len(trace) : trace[i].verb \in {"apply", "discovery"}
            /\ apply.active =>
                  /\ n = apply.doc
                  /\ answered(apply.yamls, n)
            /\ (result.op = "apply" /\ result.err # NoErr) =>
                  /\ result.doc \in 1..Len(docs)
                  /\ n \in {result.doc - 1, result.doc}
                  /\ answered(result.applied, result.doc - 1)
            /\ (result.op = "apply" /\ result.err = NoErr) =>
                  /\ n = Len(docs)
                  /\ answered(result.applied, n)

\* a step of the call takes no object from the server, and the step in which the
\* server answers an apply request with the object leaves the object on the server
AppliedStays ==
    (apply.active /\ <<apply, result, trace>>' # <<apply, result, trace>>) =>
        /\ server \subseteq server'
        /\ (apply'.active /\ Len(apply'.yamls) > Len(apply.yamls)) =>
               ApplyRequests(trace')[Len(ApplyRequests(trace'))].body[2] \in server'

\* C1: applyResource sends the apply requests of the documents of its manifest one
\* at a time, in the order of the documents, and returns at the first document
\* that fails: every earlier document has been applied on the server, no step of
\* the call takes it away again (nothing is deleted or reverted), and no request
\* later than the one of the failing document is sent.
C1_AppliedInOrderUntilFailure == []AppliedInOrder /\ [][AppliedStays]_vars

\* a manifest of three documents failed at the second, after the first was applied
C1_FailedAtSecondDocument ==
    /\ result.op = "apply"
    /\ result.err # NoErr
    /\ result.doc = 2
    /\ Len(DocsOf(result.args.Manifest)) = 3
    /\ Len(ApplyRequests(trace)) = 1
    /\ DocAtom(DocsOf(result.args.Manifest)[1]) \in server

\* C2: the error applyResource returns identifies the document that failed: two
\* calls that return the same error failed at the same document.
C2_ErrorNamesDocument ==
    (/\ result.op = "apply"
     /\ result.err # NoErr
     /\ notedFail # NoFail
     /\ result.err = notedFail.err) => result.doc = notedFail.doc

\* C3 as stated: patchResource called with a patch type outside json, merge,
\* strategic and the empty one returns an error and has made no network call, the
\* discovery call included.
C3_InvalidPatchTypeNoCall ==
    (/\ result.op = "patch"
     /\ result.args.PatchType \notin {"json", "merge", "strategic", ""})
    => (result.err # NoErr /\ trace = <<>>)

\* C3: patchResource called with a patch type outside json, merge, strategic and
\* the empty one returns an error and has sent nothing but the discovery call of
\* findGVR: no patch request, no request to any resource.
C3_InvalidPatchTypeNoPatch ==
    (/\ result.op = "patch"
     /\ result.args.PatchType \notin {"json", "merge", "strategic", ""})
    => (result.err # NoErr /\ trace = <<DiscoveryRequest>>)

\* the identifier resolved and the patch type "JSON" was refused
C3_PatchTypeRefused ==
    /\ result.op = "patch"
    /\ result.args.PatchType = "JSON"
    /\ result.gvr # NoGVR
    /\ result.err = Err("invalid patch type", "JSON")

\* C4 as stated: applyResource on a manifest with a malformed document, whichever,
\* and patchResource with a malformed patch return an error and have made no
\* network call.
C4_MalformedNoCall ==
    /\ (result.op = "apply" /\ FirstMalformed(DocsOf(result.args.Manifest)) # 0)
          => (result.err # NoErr /\ trace = <<>>)
    /\ (result.op = "patch" /\ Malformed(result.args.Patch))
          => (result.err # NoErr /\ trace = <<>>)

\* C4: applyResource on a manifest with a malformed document returns an error at
\* that document or before it, and has sent no apply request for it or for a later
\* document; when the malformed document is the first, it has made no network
\* call at all.  patchResource with a malformed patch returns an error and has
\* sent nothing but the discovery call of findGVR.
C4_MalformedNotSent ==
    /\ (result.op = "apply" /\ FirstMalformed(DocsOf(result.args.Manifest)) # 0) =>
          LET k == FirstMalformed(DocsOf(result.args.Manifest)) IN
          /\ result.err # NoErr
          /\ result.doc <= k
          /\ Len(ApplyRequests(trace)) < k
          /\ k = 1 => trace = <<>>
    /\ (result.op = "patch" /\ Malformed(result.args.Patch)) =>
          /\ result.err # NoErr
          /\ trace = <<DiscoveryRequest>>

\* a malformed second document stopped applyResource after the first was applied,
\* or a malformed patch stopped patchResource after the identifier resolved
C4_MalformedRefused ==
    \/ /\ result.op = "apply"
       /\ FirstMalformed(DocsOf(result.args.Manifest)) = 2
       /\ result.doc = 2
       /\ result.err.msg = "failed to convert manifest from YAML to JSON"
       /\ Len(ApplyRequests(trace)) = 1
    \/ /\ result.op = "patch"
       /\ Malformed(result.args.Patch)
       /\ result.gvr # NoGVR
       /\ result.err.msg = "failed to convert patch from YAML to JSON"

\* C5: no request for a cluster-scoped resource is sent to a namespaced endpoint.
C5_ClusterScopedNotNamespaced ==
    \A i \in 1..Len(trace) :
        (trace[i].verb # "discovery" /\ ScopeOf(trace[i].gvr) = {FALSE})
            => trace[i].ns = ""

\* C6: getResources with a name and no namespace, for a namespaced resource, sends
\* no cluster-scoped request for that name.
C6_NamedGetNamespaced ==
    \A i \in 1..Len(trace) :
        (/\ result.op = "get"
         /\ trace[i].verb = "get"
         /\ ScopeOf(trace[i].gvr) = {TRUE})
            => trace[i].ns # ""

\* C7: when the identifier of a call matches, by Kind, plural name, singular name
\* or short name, an entry of the listing its discovery call retrieved, findGVR
\* returns the group and version of the first list with such an entry and the
\* plural name of the first such entry of that list; "pod", "pods" and "po" all
\* give the pods of the core group.
C7_FirstMatchPluralName ==
    (Resolving /\ MatchPositions(result.lists, result.args.Resource) # {}) =>
        /\ result.gvr = CoordinatesAt(result.lists,
                                      FirstPosition(result.lists, result.args.Resource))
        /\ (/\ result.args.Resource \in {"pod", "pods", "po"}
            /\ result.lists[1] = CoreV1)
              => result.gvr = [Group |-> "", Version |-> "v1", Resource |-> "pods"]

\* the singular name resolved to the pods of the core group, and "Event", which two
\* groups serve, to the events of the first
C7_SingularAndAmbiguous ==
    /\ Resolving
    /\ \/ /\ result.args.Resource = "pod"
          /\ result.gvr = [Group |-> "", Version |-> "v1", Resource |-> "pods"]
       \/ /\ result.args.Resource = "Event"
          /\ Cardinality(MatchPositions(result.lists, "Event")) = 2
          /\ result.gvr = [Group |-> "", Version |-> "v1", Resource |-> "events"]

\* C8: when the discovery call answered and the identifier matches no entry of the
\* listing, the call returns the not-found error that carries the identifier, and
\* has sent one discovery call and nothing else: no request to a resource, no
\* second discovery call.
C8_NotFoundNoRequest ==
    (/\ Resolving
     /\ result.disc # "unavailable"
     /\ MatchPositions(result.lists, result.args.Resource) = {})
    => /\ result.err = Err("resource kind not found", result.args.Resource)
       /\ result.gvr = NoGVR
       /\ trace = <<DiscoveryRequest>>

\* "Pods" is no Kind, name or short name of the full listing
C8_UnknownIdentifier ==
    /\ result.op = "delete"
    /\ result.args.Resource = "Pods"
    /\ result.disc = "nil"
    /\ result.err = Err("resource kind not found", "Pods")

\* C9: when the discovery of some groups fails, findGVR resolves an identifier that
\* a retrieved group matches, and apiResources lists the resources of the
\* retrieved groups without error; when the discovery call fails as a whole, both
\* return a discovery error and nothing but the discovery call was sent.
C9_PartialToleratedTotalFatal ==
    /\ (/\ Resolving
        /\ result.disc = "ErrGroupDiscoveryFailed"
        /\ MatchPositions(result.lists, result.args.Resource) # {})
          => /\ result.gvr # NoGVR
             /\ result.err.msg \notin {"failed to get server preferred resources",
                                       "resource kind not found"}
    /\ (result.op = "api-resources" /\ result.disc = "ErrGroupDiscoveryFailed")
          => /\ result.err = NoErr
             /\ \A i \in 1..Len(result.lists) :
                   \A j \in 1..Len(result.lists[i].APIResources) :
                      \E k \in 2..Len(result.out) :
                         /\ result.out[k].NAME = result.lists[i].APIResources[j].Name
                         /\ result.out[k].APIVERSION = result.lists[i].GroupVersion
    /\ (Resolving /\ result.disc = "unavailable")
          => /\ result.err = Err("failed to get server preferred resources", "unavailable")
             /\ trace = <<DiscoveryRequest>>
    /\ (result.op = "api-resources" /\ result.disc = "unavailable")
          => /\ result.err = Err("failed to get server groups and resources", "unavailable")
             /\ trace = <<DiscoveryRequest>>

\* with the core group failing, "Event" resolved in the group that was retrieved and
\* the request was sent
C9_ResolvedWithFailedGroup ==
    /\ result.op = "get"
    /\ result.disc = "ErrGroupDiscoveryFailed"
    /\ result.args.Resource = "Event"
    /\ result.gvr = [Group |-> "events.k8s.io", Version |-> "v1", Resource |-> "events"]
    /\ Len(ResourceRequests(trace)) = 1

\* C10: within a discovery epoch, in which the listing of the cluster does not
\* change, two calls with the same identifier resolve to the same coordinates,
\* whatever was called in between.
C10_SameCoordinatesInEpoch ==
    (/\ Resolved
     /\ noted # NoNote
     /\ result.args.Resource = noted.id) => result.gvr = noted.gvr

\* whether a listing holds the resource of a group, version and kind
ServesKind(lists, gvk) ==
    \E e \in ServedResources(lists) :
        /\ e.gvr.Group = gvk.Group
        /\ e.gvr.Version = gvk.Version
        /\ e.Kind = gvk.Kind

\* an identifier of a type of the cluster resolves when the discovery call of
\* findGVR answered in full from the listing the cluster has
NewIdentifierResolves ==
    (/\ Resolving
     /\ result.disc = "nil"
     /\ GroupsOf(result.lists) = GroupsOf(cluster)
     /\ MatchPositions(cluster, result.args.Resource) # {})
       => result.gvr # NoGVR

\* the step in which applyResource returns a REST mapping error for a document
\* whose type the cluster has at that step: the call has fetched discovery
NewKindMapped ==
    (/\ apply.active
     /\ result'.op = "apply"
     /\ result'.err.msg = "failed to get REST mapping"
     /\ cluster = CRDListing
     /\ ServesKind(cluster,
                   GroupVersionKind(DocAtom(DocsOf(result'.args.Manifest)[result'.doc]))))
       => \E i \in 1..Len(trace') : trace'[i] = DiscoveryRequest

\* C11: once a resource type has been added to the cluster, its resolution does not
\* fail against what was cached before: an identifier of the type resolves when
\* the discovery call answers in full, and applyResource does not return a REST
\* mapping error for a document of the type without having fetched discovery
\* anew in that call.
C11_NewTypeResolves == []NewIdentifierResolves /\ [][NewKindMapped]_vars

\* C12: the patch request of a call of patchResource carries the JSON patch type
\* for "json", the merge patch type for "merge" and the strategic merge patch type
\* for "strategic" and for the empty patch type; and a call with the empty patch
\* type sends the requests and returns the result that the call with "strategic"
\* and otherwise the same arguments sends and returns in the same circumstances.
C12_PatchTypeFromKind ==
    [][ (result.op = "idle" /\ result'.op = "patch") =>
           /\ \A i \in 1..Len(trace') :
                 trace'[i].verb = "patch" =>
                    trace'[i].opt =
                       CASE result'.args.PatchType = "json" -> "application/json-patch+json"
                         [] result'.args.PatchType = "merge" -> "application/merge-patch+json"
                         [] OTHER -> "application/strategic-merge-patch+json"
           /\ result'.args.PatchType = "" =>
                 \E fail \in BOOLEAN :
                    LET o == patchResource(cluster, server,
                                           [result'.args EXCEPT !.PatchType = "strategic"],
                                           call.disc, fail)
                    IN  /\ o.trace = trace'
                        /\ o.server = server'
                        /\ [o.result EXCEPT !.args = result'.args] = result' ]_vars

\* a patch with the empty patch type was sent as a strategic merge patch and accepted
C12_DefaultPatchSent ==
    /\ result.op = "patch"
    /\ result.args.PatchType = ""
    /\ result.err = NoErr
    /\ \E i \in 1..Len(trace) :
          /\ trace[i].verb = "patch"
          /\ trace[i].opt = "application/strategic-merge-patch+json"

\* C13 as stated: the confirmation of a successful deleteResource names the plural
\* of the resolved coordinates and the name, whatever identifier was given.
C13_ConfirmationNamesPlural ==
    (result.op = "delete" /\ result.err = NoErr)
    => result.out = <<"Resource ", result.gvr.Resource, "/", result.args.Name, " deleted.">>

\* C13: the confirmation of a successful deleteResource is "Resource <identifier>/
\* <name> deleted." with the identifier as the caller gave it: the plural of the
\* resolved coordinates exactly when the caller gave the plural.
C13_ConfirmationEchoesIdentifier ==
    (result.op = "delete" /\ result.err = NoErr)
    => /\ result.out = <<"Resource ", result.args.Resource, "/", result.args.Name,
                         " deleted.">>
       /\ (result.out[2] = result.gvr.Resource) <=> (result.args.Resource = result.gvr.Resource)

\* a pod was deleted by the short name of its resource
C13_DeletedByShortName ==
    /\ result.op = "delete"
    /\ result.err = NoErr
    /\ result.args.Resource = "po"
    /\ result.gvr.Resource = "pods"
    /\ result.out = <<"Resource ", "po", "/", "a", " deleted.">>

\* C14: deleteResource returns its confirmation exactly when it returns no error,
\* and it returns no error only when the server held the object at the place the
\* delete request named and removed it; when the object is not there, or the
\* server answers the request with any other error, the error is returned, no
\* confirmation, and the server is as it was.
C14_ConfirmationOnlyWhenDeleted ==
    [][ (result.op = "idle" /\ result'.op = "delete") =>
           LET target == { x \in server :
                             Location(x) = [gvr |-> result'.gvr,
                                            ns |-> result'.args.Namespace,
                                            name |-> result'.args.Name] }
           IN  /\ (result'.out # <<>>) <=> (result'.err = NoErr)
               /\ result'.err = NoErr =>
                     /\ target # {}
                     /\ server' = server \ target
                     /\ \E i \in 1..Len(trace') : trace'[i].verb = "delete"
               /\ target = {} => result'.err # NoErr
               /\ result'.err # NoErr => server' = server ]_vars

\* the delete of a pod that is not on the server returned the server's NotFound
C14_DeleteOfAbsentObject ==
    /\ result.op = "delete"
    /\ result.gvr = [Group |-> "", Version |-> "v1", Resource |-> "pods"]
    /\ result.args.Name = "a"
    /\ result.args.Namespace = "default"
    /\ "podA" \notin server
    /\ result.err = Err("NotFound", "a")
    /\ result.out = <<>>
    /\ \E i \in 1..Len(trace) : trace[i].verb = "delete"

\* the objects the server returns to the get or list request of a call of
\* getResources, in the order it returns them
Fetched(res, srv) ==
    IF res.args.Name # ""
    THEN SelectSeq(ListOrder, LAMBDA x :
            /\ x \in srv
            /\ Location(x) = [gvr |-> res.gvr, ns |-> res.args.Namespace,
                              name |-> res.args.Name])
    ELSE SelectSeq(ListOrder, LAMBDA x :
            /\ x \in srv
            /\ Location(x).gvr = res.gvr
            /\ (res.args.Namespace = "" \/ Location(x).ns = res.args.Namespace)
            /\ HasLabels(x, res.args.LabelSelector))

\* C15: the YAML getResources returns for the n objects the server returned to its
\* request, from what it held when the request arrived, is their n documents in
\* the server's order, each ended by a newline, with "---\n" between two documents
\* and nowhere else: nothing for n = 0, n - 1 separators otherwise.
C15_YamlJoinedInOrder ==
    [][ (/\ result.op = "idle"
         /\ result'.op = "get"
         /\ result'.err = NoErr
         /\ result'.args.CustomColumns = <<>>) =>
           LET items == Fetched(result', server)
               n == Len(items)
           IN  /\ Len(result'.out) = IF n = 0 THEN 0 ELSE 4 * n - 2
               /\ \A i \in 1..n :
                     /\ result'.out[4 * i - 3] = items[i]
                     /\ result'.out[4 * i - 2] = "\n"
               /\ \A i \in 1..(n - 1) :
                     /\ result'.out[4 * i - 1] = "---"
                     /\ result'.out[4 * i] = "\n" ]_vars

\* two pods were listed, and a list that matched nothing gave the empty string
C15_TwoDocumentsListed ==
    /\ result.op = "get"
    /\ result.err = NoErr
    /\ result.args.CustomColumns = <<>>
    /\ result.args.Name = ""
    /\ result.out = <<"podA", "\n", "---", "\n", "podB", "\n">>

\* C16: the YAML a successful applyResource returns holds one document for each
\* part of the manifest that is not blank, the i-th being the object the server
\* returned for the i-th such part, with "---\n" between two documents.
C16_OneObjectPerDocument ==
    (result.op = "apply" /\ result.err = NoErr) =>
        LET docs == DocsOf(result.args.Manifest)
            n == Len(docs)
        IN  /\ result.doc = n
            /\ Len(result.out) = IF n = 0 THEN 0 ELSE 4 * n - 2
            /\ \A i \in 1..n :
                  /\ result.out[4 * i - 3] = DocAtom(docs[i])
                  /\ result.out[4 * i - 2] = "\n"
            /\ \A i \in 1..(n - 1) :
                  /\ result.out[4 * i - 1] = "---"
                  /\ result.out[4 * i] = "\n"

\* a manifest of two different documents and a blank segment was applied
C16_TwoDocumentsApplied ==
    /\ result.op = "apply"
    /\ result.err = NoErr
    /\ Len(Split(result.args.Manifest, "---")) = 3
    /\ Len(DocsOf(result.args.Manifest)) = 2
    /\ result.out = <<"podA", "\n", "---", "\n", "nodeA", "\n">>

\* a "---" that is a line of its own
BareSeparator(text, i) ==
    /\ text[i] = "---"
    /\ (i = 1 \/ text[i - 1] = "\n")
    /\ (i = Len(text) \/ text[i + 1] = "\n")

\* the documents of a manifest delimited at such lines only, blank ones left out
RECURSIVE SplitBare(_)
SplitBare(text) ==
    IF \A i \in 1..Len(text) : ~BareSeparator(text, i) THEN <<text>>
    ELSE LET i == CHOOSE k \in 1..Len(text) :
                      BareSeparator(text, k) /\ \A m \in 1..(k - 1) : ~BareSeparator(text, m)
         IN  <<SubSeq(text, 1, i - 1)>> \o SplitBare(SubSeq(text, i + 1, Len(text)))

BareDocs(manifest) == SelectSeq(SplitBare(manifest), LAMBDA part : TrimSpace(part) # <<>>)

\* C17: applyResource delimits the documents of a manifest at the "---" lines
\* only: a successful call has sent one apply request for each document so
\* delimited that is not blank, and a manifest whose documents so delimited are
\* all YAML is not refused as not being YAML, a "---" inside a line starting no
\* document.
C17_SplitAtBareLines ==
    result.op = "apply" =>
        LET bare == BareDocs(result.args.Manifest) IN
        /\ result.err = NoErr => Len(ApplyRequests(trace)) = Len(bare)
        /\ (\A i \in 1..Len(bare) : YAMLToJSON(TrimSpace(bare[i])).err = NoErr)
              => result.err.msg # "failed to convert manifest from YAML to JSON"

(***************************************************************************)
(* FmtCustomColumns by itself: a call on any objects and any column         *)
(* specification of the model, result holding the call and what it returns. *)
(***************************************************************************)
ColumnCalls ==
    { [op |-> "columns", items |-> items, cols |-> cs, columns |-> ColumnSpecOf(cs),
       done |-> FALSE, out |-> <<>>, err |-> NoErr] :
        items \in {<<>>} \cup SeqsUpTo(ObjectAtoms, MaxItems),
        cs \in SeqsUpTo(ColumnKinds, MaxColumns) }

InitColumns ==
    /\ cluster = BaseListing
    /\ server = {"podB"}
    /\ mapperCache = NotLoaded
    /\ trace = <<>>
    /\ result \in ColumnCalls
    /\ apply = NoApply
    /\ noted = NoNote
    /\ notedFail = NoFail
    /\ workers = [w \in Workers |-> IdleWorker]
    /\ initMu = 0
    /\ installed = Install(ReadWrite)
    /\ call = NoCall
    /\ rendering = NoRendering

RenderColumns ==
    /\ result.op = "columns"
    /\ ~result.done
    /\ result' = [result EXCEPT
                     !.done = TRUE,
                     !.out = FmtCustomColumns(result.items, result.columns).out,
                     !.err = FmtCustomColumns(result.items, result.columns).err]
    /\ UNCHANGED <<cluster, server, mapperCache, trace, apply, noted, notedFail, workers, initMu, installed, call, rendering>>

NextColumns == RenderColumns

SpecColumns == InitColumns /\ [][NextColumns]_vars

Rendered == result.op = "columns" /\ result.done

\* the lines of a text: what stands before each of its newlines
LinesOf(text) == SubSeq(Split(text, "\n"), 1, Len(Split(text, "\n")) - 1)

\* what the column of the model shows of an object it applies to
ExpectedCell(atom, c) ==
    CASE c = "name" -> ObjectOf(atom).name
      [] c = "kind" -> ObjectOf(atom).kind
      [] OTHER -> "<none>"

\* C18: the text a successful FmtCustomColumns returns for k objects and m columns
\* ends with a newline and has k + 1 lines: the first is the m headers in the
\* order of the specification with tabs between them, and line i + 1 is m cells
\* with tabs between them, cell j showing column j of the i-th object.
C18_HeaderAndOneLinePerObject ==
    (Rendered /\ result.err = NoErr) =>
        LET k == Len(result.items)
            m == Len(result.cols)
            lines == LinesOf(result.out)
        IN  /\ result.out[Len(result.out)] = "\n"
            /\ Len(lines) = k + 1
            /\ Split(lines[1], "\t") = [j \in 1..m |-> <<ColumnText(result.cols[j])[1]>>]
            /\ \A i \in 1..k :
                  Split(lines[i + 1], "\t") =
                     [j \in 1..m |-> <<ExpectedCell(result.items[i], result.cols[j])>>]

\* two pods were rendered with their names and a column that found nothing
C18_TwoRowsTwoColumns ==
    /\ Rendered
    /\ result.err = NoErr
    /\ result.items = <<"podA", "podB">>
    /\ result.cols = <<"name", "filter">>
    /\ result.out = <<"NAME", "\t", "MAIN", "\n", "a", "\t", "<none>", "\n",
                      "b", "\t", "<none>", "\n">>

\* C19: when every path of the specification parses and a path names a key that an
\* object lacks, at its last step or before, FmtCustomColumns returns no error and
\* the cell of that object for that column is "<none>".
C19_MissingKeyIsNone ==
    (/\ Rendered
     /\ result.items # <<>>
     /\ \A j \in 1..Len(result.cols) : result.cols[j] \in {"name", "kind", "missing", "deep"})
    => /\ result.err = NoErr
       /\ \A i \in 1..Len(result.items) :
             \A j \in 1..Len(result.cols) :
                result.cols[j] \in {"missing", "deep"} =>
                   Split(LinesOf(result.out)[i + 1], "\t")[j] = <<"<none>">>

\* C20: when a path of the specification does not parse, FmtCustomColumns returns
\* an error and no text, whatever the objects, none included.
C20_InvalidPathFails ==
    (Rendered /\ \E j \in 1..Len(result.cols) : result.cols[j] = "bad")
    => (result.err # NoErr /\ result.out = <<>>)

\* C21: a call of getResources without a name that resolved its identifier sends one
\* List request for the resolved resource: to the endpoint of the namespace of the
\* call when it has one and to the endpoint of all namespaces when it has none, with
\* the label selector of the call, as it was given, for its only option; an empty
\* selector sends none.
C21_ListEndpointAndSelector ==
    (result.op = "get" /\ result.args.Name = "" /\ result.gvr # NoGVR) =>
        LET reqs == ResourceRequests(trace) IN
        /\ Len(reqs) = 1
        /\ reqs[1].verb = "list"
        /\ reqs[1].gvr = result.gvr
        /\ reqs[1].name = ""
        /\ reqs[1].ns = result.args.Namespace
        /\ reqs[1].opt = result.args.LabelSelector

\* a list of the pods of all namespaces with a label selector was answered
C21_ListedAllNamespacesSelected ==
    /\ result.op = "get"
    /\ result.err = NoErr
    /\ result.args.Name = ""
    /\ result.args.Namespace = ""
    /\ result.args.LabelSelector = "app=x"
    /\ Len(trace) = 2
    /\ trace[2].verb = "list"
    /\ trace[2].ns = ""
    /\ trace[2].opt = "app=x"
    /\ trace[2].gvr.Resource = "pods"

\* C22: every apply request of a call of applyResource is the request of one document
\* of the manifest: it is addressed to the resource that the REST mapper holds for
\* the group and version of the document's apiVersion and for its kind, it names the
\* object by metadata.name and carries the document, its options are the field
\* manager "kubeapi-mcp" with force, and it goes to a namespaced endpoint, that of
\* metadata.namespace, when that resource is namespaced, and to the endpoint
\* without namespace when it is cluster-scoped, whatever namespace the document
\* gives.
C22_ApplyAddressedByDocument ==
    LET docs == DocsOf(ManifestInHand)
        reqs == ApplyRequests(trace)
    IN  \A i \in 1..Len(reqs) :
            /\ i <= Len(docs)
            /\ LET o == ObjectOf(DocAtom(docs[i]))
                   held == { e \in ServedResources(mapperCache.lists) :
                               /\ e.Kind = o.kind
                               /\ Len(o.apiVersion) \in {1, 2}
                               /\ e.gvr.Version = o.apiVersion[Len(o.apiVersion)]
                               /\ e.gvr.Group = IF Len(o.apiVersion) = 2
                                                THEN o.apiVersion[1] ELSE "" }
               IN  /\ \E e \in held :
                         /\ reqs[i].gvr = e.gvr
                         /\ e.Namespaced => (reqs[i].ns = o.namespace /\ reqs[i].ns # "")
                         /\ ~e.Namespaced => reqs[i].ns = ""
                   /\ reqs[i].name = o.name
                   /\ reqs[i].body = <<"json", DocAtom(docs[i])>>
                   /\ reqs[i].opt = "FieldManager=kubeapi-mcp,Force=true"

\* C23: no handler sends a request twice.  A call of getResources, deleteResource or
\* patchResource has sent at most one resource request, also when it returns the
\* error of that request; a call of applyResource has sent no other request than
\* apply requests and at most one of them for each document it has gone through,
\* also when it returns the error of the last of them.
C23_NoRetry ==
    /\ result.op \in {"get", "delete", "patch"} =>
           Len(ResourceRequests(trace)) <= 1
    /\ apply.active =>
           /\ ResourceRequests(trace) = ApplyRequests(trace)
           /\ Len(ApplyRequests(trace)) <= apply.doc
    /\ result.op = "apply" =>
           /\ ResourceRequests(trace) = ApplyRequests(trace)
           /\ Len(ApplyRequests(trace)) <= result.doc

\* a call of getResources returned the error of the server for its one request
C23_FailedRequestSentOnce ==
    /\ result.op = "get"
    /\ result.err = Err("server", "request failed")
    /\ Len(ResourceRequests(trace)) = 1

\* what holds when applyResource has returned the error of a context that is done
CancelledOutcome ==
    (result.op = "apply" /\ result.err = Canceled) =>
        LET docs == DocsOf(result.args.Manifest)
            reqs == ApplyRequests(trace)
        IN  /\ ~apply.active
            /\ ResourceRequests(trace) = reqs
            /\ Len(reqs) \in {result.doc - 1, result.doc}
            /\ \A i \in 1..Len(reqs) : reqs[i].body = <<"json", DocAtom(docs[i])>>
            /\ Len(result.applied) = result.doc - 1
            /\ \A i \in 1..(result.doc - 1) :
                  result.applied[i] = JSONToYAML(Marshal(DocAtom(docs[i])))

\* what an iteration of the loop on a document does once the context is done, and
\* what no step of the call does: take an object from the server
AfterCancel ==
    /\ (/\ apply.active
        /\ apply.ctx = "done"
        /\ apply.parts # <<>>
        /\ TrimSpace(Head(apply.parts)) # <<>>
        /\ apply' # apply) =>
           /\ result'.op = "apply"
           /\ result'.err # NoErr
           /\ ~apply'.active
           /\ server' = server
           /\ ApplyRequests(trace') = ApplyRequests(trace)
    /\ (apply.active /\ apply' # apply) => server \subseteq server'

\* C24: when the context of a call of applyResource is done while the apply request
\* of a document is in flight, or before the request of a document is made, the
\* request is aborted or not made and applyResource returns an error at that
\* document: no request of a later document is sent, no request other than apply
\* requests (no delete, no revert) is sent, the earlier documents were applied
\* and no step of the call takes their objects from the server.
C24_CancelledApplyStops == []CancelledOutcome /\ [][AfterCancel]_vars

\* the context was done while the request of the second document was in flight:
\* the error of the context is returned and the first document stays applied
C24_CancelledAtSecondDocument ==
    /\ result.op = "apply"
    /\ result.err = Canceled
    /\ result.doc = 2
    /\ Len(ApplyRequests(trace)) = 2
    /\ Len(DocsOf(result.args.Manifest)) = 3
    /\ DocAtom(DocsOf(result.args.Manifest)[1]) = "podA"
    /\ "podA" \in server

\* what the mapper holds is nothing or all that one discovery call retrieved
WholeRefresh(mc) ==
    \/ mc = NotLoaded
    \/ \E listing \in {BaseListing, CRDListing} :
          \E d \in DiscoveryOutcomes(listing) :
              /\ ~d.total
              /\ mc = [valid |-> TRUE, lists |-> Retrieved(listing, d.failed, 1)]

\* the mapper and every call that has a delegate hold the same whole refresh
CacheWhole ==
    /\ WholeRefresh(mapperCache)
    /\ \A w \in Workers :
          workers[w].delegate.valid => workers[w].delegate = mapperCache

\* the mapper's data is written in one piece, once, by the holder of the lock, and
\* no step of a call writes anything else the handlers share
RefreshUnderLock ==
    /\ mapperCache' # mapperCache =>
          /\ ~mapperCache.valid
          /\ initMu \in Workers
          /\ workers[initMu].pc = "load"
          /\ workers'[initMu].delegate = mapperCache'
          /\ initMu' = 0
    /\ workers' # workers => cluster' = cluster

\* C25: under every interleaving of the calls that run side by side, the data of the
\* REST mapper is the only state of the handlers that a call writes; it is written
\* as a whole (it is always nothing or all that one discovery call retrieved, never
\* a mix of two), every call resolves against the same whole data, and when two
\* calls ask for it at the same time one of them loads it and the other finds it, so
\* that the mapper holds what one refresh leaves.
C25_WholeCacheOneRefresh == []CacheWhole /\ [][RefreshUnderLock]_vars

\* two calls ran side by side: the first loaded the mapper with one group failing,
\* the second found the same data without a discovery call, and both sent their
\* apply request
C25_TwoCallsOneRefresh ==
    /\ workers[1].pc = "done"
    /\ workers[2].pc = "done"
    /\ Len(workers[1].sent) = 2
    /\ workers[1].sent[1] = DiscoveryRequest
    /\ workers[1].sent[2].verb = "apply"
    /\ Len(workers[2].sent) = 1
    /\ workers[2].sent[1].verb = "apply"
    /\ mapperCache = [valid |-> TRUE, lists |-> <<CoreV1>>]
    /\ workers[1].delegate = mapperCache
    /\ workers[2].delegate = mapperCache

(***************************************************************************)
(* The format converter on values.  An object is a mapping with its        *)
(* apiVersion, its kind, its metadata (name and namespace), the key "k"    *)
(* and perhaps the key "n", held as the set of its entries; a value is a   *)
(* scalar (a string, a number, a boolean or null), a sequence of scalars   *)
(* or a mapping, the set of its entries.  Keys are single words.  The text *)
(* of a scalar is a sequence of atoms, words and "---", and so is YAML,    *)
(* with the atoms ":" after a key, "-" before an element, "  " for one     *)
(* step of indentation, "\"" for a double quote, "{}" and "[]" for the     *)
(* empty mapping and sequence, and "\n" at the end of a line.              *)
(***************************************************************************)
Val(t, v, items, entries) == [t |-> t, v |-> v, items |-> items, entries |-> entries]
Str(v) == Val("str", v, <<>>, {})
Num(v) == Val("num", v, <<>>, {})
Bool(v) == Val("bool", v, <<>>, {})
Null == Val("null", <<"null">>, <<>>, {})
Sequence(items) == Val("seq", <<>>, items, {})
Map(entries) == Val("map", <<>>, <<>>, entries)

\* the words that YAML 1.1, which yaml.v2 reads and writes, takes for a boolean or
\* for null when they stand plain
TrueWords == {"y", "Y", "yes", "Yes", "YES", "true", "True", "TRUE", "on", "On", "ON"}
FalseWords == {"n", "N", "no", "No", "NO", "false", "False", "FALSE", "off", "Off", "OFF"}
NullWords == {"~", "null", "Null", "NULL"}

\* the atoms that are no part of a plain scalar
Indicators == {"\"", ":", "-", "  ", "{}", "[]", "\n"}

\* what a plain scalar resolves to: null, a boolean, a number (the numbers here are
\* written with the digit 1) or a string
Resolve(text) ==
    IF text = <<>> THEN Null
    ELSE IF Len(text) = 1 /\ text[1] \in TrueWords THEN Bool(<<"true">>)
    ELSE IF Len(text) = 1 /\ text[1] \in FalseWords THEN Bool(<<"false">>)
    ELSE IF Len(text) = 1 /\ text[1] \in NullWords THEN Null
    ELSE IF \A i \in 1..Len(text) : text[i] = "1" THEN Num(text)
    ELSE Str(text)

\* strings: a word, the empty string, strings that read like a boolean, a number or
\* null, and a string that holds "---"
StringTexts == { <<"a">>, <<>>, <<"true">>, <<"1">>, <<"null">>, <<"x", "---", "y">> }

Scalars == { Str(v) : v \in StringTexts } \cup { Num(<<"1">>), Bool(<<"true">>), Null }

Elements == { Str(<<"a">>), Str(<<"true">>), Bool(<<"true">>) }

Fields ==
    Scalars
    \cup { Sequence(it) : it \in SeqsUpTo(Elements, MaxElems) }
    \cup { Map({[key |-> "m", f |-> sc]}) : sc \in Scalars }

\* what every object the server returns carries: its apiVersion, its kind, and its
\* name and namespace
APIVersionEntry == [key |-> "apiVersion", f |-> Str(<<"v1">>)]
KindEntry == [key |-> "kind", f |-> Str(<<"Pod">>)]
MetadataEntry ==
    [key |-> "metadata",
     f |-> Map({[key |-> "name", f |-> Str(<<"a">>)],
                [key |-> "namespace", f |-> Str(<<"default">>)]})]

\* the pods the server returns: a value of every kind under "k", and under "n" a
\* scalar or a nested mapping
Objects ==
    { {APIVersionEntry, [key |-> "k", f |-> a], KindEntry, MetadataEntry} : a \in Fields }
    \cup { {APIVersionEntry, [key |-> "k", f |-> a], KindEntry, MetadataEntry,
            [key |-> "n", f |-> b]} :
              a \in Fields, b \in { f \in Fields : f.t # "seq" } }

\* the encoder of yaml.v2 writes a string plain when it resolves to a string
Plain(v) == Resolve(v).t = "str"

\* a scalar as yaml.Marshal writes it: a string that would read as something else
\* is put between double quotes
ScalarYAML(sc) ==
    IF sc.t = "str" /\ ~Plain(sc.v) THEN <<"\"">> \o sc.v \o <<"\"">> ELSE sc.v

\* a value written on the line of its key or of its element
InlineYAML(f) ==
    CASE f.t = "map" -> <<"{}">>
      [] f.t = "seq" -> <<"[]">>
      [] OTHER -> ScalarYAML(f)

\* a key is written as the string it is: the key n between quotes
KeyYAML(key) == ScalarYAML(Str(IF key = "" THEN <<>> ELSE <<key>>))

\* the keys of the model in the order in which yaml.Marshal sorts the keys of a
\* mapping
KeyOrder ==
    <<"", "1", "Pod", "a", "apiVersion", "default", "false", "k", "kind", "m", "metadata",
      "n", "name", "namespace", "null", "true", "v1", "x", "y">>

\* the lines of the elements of a sequence
ElementsYAML(items) == [c \in 1..Len(items) |-> <<"-">> \o InlineYAML(items[c])]

\* the lines of the entries of a nested mapping, in the order of their keys, one
\* step in
RECURSIVE NestedYAML(_, _)
NestedYAML(entries, keys) ==
    IF keys = <<>> THEN <<>>
    ELSE (IF \E e \in entries : e.key = Head(keys)
          THEN <<<<"  ">> \o KeyYAML(Head(keys)) \o <<":">>
                 \o InlineYAML((CHOOSE e \in entries : e.key = Head(keys)).f)>>
          ELSE <<>>)
         \o NestedYAML(entries, Tail(keys))

\* the lines of an entry: a scalar on the line of the key, the elements of a
\* sequence under it at its indentation, the entries of a mapping one step in
FieldYAML(key, f) ==
    IF f.t = "seq" /\ f.items # <<>> THEN
        <<KeyYAML(key) \o <<":">>>> \o ElementsYAML(f.items)
    ELSE IF f.t = "map" /\ f.entries # {} THEN
        <<KeyYAML(key) \o <<":">>>> \o NestedYAML(f.entries, KeyOrder)
    ELSE
        <<KeyYAML(key) \o <<":">> \o InlineYAML(f)>>

\* the lines of the entries of an object, in the order of their keys
RECURSIVE EntriesYAML(_, _)
EntriesYAML(obj, keys) ==
    IF keys = <<>> THEN <<>>
    ELSE (IF \E e \in obj : e.key = Head(keys)
          THEN FieldYAML(Head(keys), (CHOOSE e \in obj : e.key = Head(keys)).f)
          ELSE <<>>)
         \o EntriesYAML(obj, Tail(keys))

\* lines as text, each ended with a newline
RECURSIVE Unlines(_)
Unlines(lines) ==
    IF lines = <<>> THEN <<>> ELSE Head(lines) \o <<"\n">> \o Unlines(Tail(lines))

\* yaml.JSONToYAML of the JSON of an object: its entries in the order of their keys
JSONToYAMLOf(obj) ==
    IF obj = {} THEN <<"{}", "\n">> ELSE Unlines(EntriesYAML(obj, KeyOrder))

\* a result of reading that also needs a condition met
Only(cond, r) == [ok |-> cond /\ r.ok, f |-> r.f]

\* a scalar as YAML reads it: text between double quotes is a string, plain text is
\* what it resolves to
ScalarJSON(text) ==
    IF Len(text) >= 2 /\ text[1] = "\"" /\ text[Len(text)] = "\""
    THEN [ok |-> \A i \in 2..(Len(text) - 1) : text[i] # "\"",
          f |-> Str(SubSeq(text, 2, Len(text) - 1))]
    ELSE IF \E i \in 1..Len(text) : text[i] \in Indicators
    THEN [ok |-> FALSE, f |-> Null]
    ELSE [ok |-> TRUE, f |-> Resolve(text)]

\* a value read from the line of its key or of its element
InlineJSON(text) ==
    IF text = <<"{}">> THEN [ok |-> TRUE, f |-> Map({})]
    ELSE IF text = <<"[]">> THEN [ok |-> TRUE, f |-> Sequence(<<>>)]
    ELSE ScalarJSON(text)

\* a key as yaml.YAMLToJSON gives it: a string as it is, a boolean as "true" or
\* "false", a number as its digits; null is no key
KeyOf(sc) ==
    IF ~sc.ok \/ sc.f.t = "null" \/ Len(sc.f.v) > 1 THEN [ok |-> FALSE, key |-> ""]
    ELSE [ok |-> TRUE, key |-> IF sc.f.v = <<>> THEN "" ELSE sc.f.v[1]]

KeyJSON(text) == KeyOf(ScalarJSON(text))

\* the lines of a YAML text, blank lines aside
YamlLines(text) ==
    SelectSeq(Split(text, "\n"),
              LAMBDA line : \E i \in 1..Len(line) : line[i] \notin {" ", "  "})

IsChild(line) == line[1] \in {"-", "  "}

\* where the key of a line ends, 0 when the line has no key
ColonAt(line) ==
    IF \E i \in 1..Len(line) : line[i] = ":"
    THEN CHOOSE i \in 1..Len(line) : line[i] = ":" /\ \A m \in 1..(i - 1) : line[m] # ":"
    ELSE 0

\* the first line from j on that is no element and no indented line
RECURSIVE ChildEnd(_, _)
ChildEnd(lines, j) ==
    IF j > Len(lines) \/ ~IsChild(lines[j]) THEN j ELSE ChildEnd(lines, j + 1)

\* entries with one more: an entry replaces one of the same key
Put(acc, key, f) == { e \in acc : e.key # key } \cup {[key |-> key, f |-> f]}

\* the sequence that lines of elements give
ElementsJSON(children) ==
    LET elems == [c \in 1..Len(children) |-> InlineJSON(Tail(children[c]))]
    IN  [ok |-> \A c \in 1..Len(children) : elems[c].ok,
         f |-> Sequence([c \in 1..Len(children) |-> elems[c].f])]

\* one line of a nested mapping added to the entries read before it
NestedPut(acc, p, key, value) ==
    IF ~acc.ok \/ p = 0 \/ ~key.ok \/ ~value.ok
    THEN [ok |-> FALSE, f |-> Null]
    ELSE [ok |-> TRUE, f |-> Map(Put(acc.f.entries, key.key, value.f))]

\* the mapping that the lines of a nested mapping give, each a key and a value on
\* its line
RECURSIVE NestedJSON(_, _)
NestedJSON(lines, n) ==
    IF n = 0 THEN [ok |-> TRUE, f |-> Map({})]
    ELSE NestedPut(NestedJSON(lines, n - 1), ColonAt(lines[n]),
                   KeyJSON(SubSeq(lines[n], 1, ColonAt(lines[n]) - 1)),
                   InlineJSON(SubSeq(lines[n], ColonAt(lines[n]) + 1, Len(lines[n]))))

\* the value of an entry, from the text after its key and the lines under it
FieldJSON(value, children) ==
    LET n == Len(children)
        inner == [c \in 1..n |-> Tail(children[c])]
    IN  IF value # <<>> THEN Only(children = <<>>, InlineJSON(value))
        ELSE IF children = <<>> THEN [ok |-> TRUE, f |-> Null]
        ELSE IF \A c \in 1..n : children[c][1] = "-" THEN ElementsJSON(children)
        ELSE IF \A c \in 1..n : children[c][1] = "  " /\ Len(children[c]) > 1 THEN
            IF \A c \in 1..n : inner[c][1] = "-"
            THEN ElementsJSON(inner)
            ELSE NestedJSON(inner, n)
        ELSE [ok |-> FALSE, f |-> Null]

\* one entry added to those read before it
EntryPut(acc, isKey, key, fld) ==
    IF ~acc.ok \/ ~isKey \/ ~key.ok \/ ~fld.ok
    THEN [ok |-> FALSE, top |-> "map", obj |-> {}]
    ELSE [ok |-> TRUE, top |-> "map", obj |-> Put(acc.obj, key.key, fld.f)]

\* the entries that the lines from i on add to those read before them
RECURSIVE EntriesFrom(_, _, _)
EntriesFrom(lines, i, acc) ==
    IF i > Len(lines) \/ ~acc.ok THEN acc
    ELSE EntriesFrom(lines, ChildEnd(lines, i + 1),
                     EntryPut(acc, ~IsChild(lines[i]) /\ ColonAt(lines[i]) # 0,
                              KeyJSON(SubSeq(lines[i], 1, ColonAt(lines[i]) - 1)),
                              FieldJSON(SubSeq(lines[i], ColonAt(lines[i]) + 1, Len(lines[i])),
                                        SubSeq(lines, i + 1, ChildEnd(lines, i + 1) - 1))))

\* a document of one line that is no entry: a scalar, or an empty mapping or
\* sequence
OneLine(one) ==
    [ok |-> one.ok, top |-> IF one.f.t \in {"map", "seq"} THEN one.f.t ELSE "scalar",
     obj |-> {}]

\* yaml.YAMLToJSON of a document: the JSON value it holds, a mapping with its
\* entries, a sequence or, for a document of plain or quoted words, a scalar
YAMLToJSONLines(lines) ==
    IF lines = <<>> THEN
        [ok |-> TRUE, top |-> "scalar", obj |-> {}]
    ELSE IF Len(lines) = 1 /\ ColonAt(lines[1]) = 0 /\ ~IsChild(lines[1]) THEN
        OneLine(InlineJSON(lines[1]))
    ELSE IF \A l \in 1..Len(lines) : \A i \in 1..Len(lines[l]) : lines[l][i] \notin Indicators
    THEN
        [ok |-> TRUE, top |-> "scalar", obj |-> {}]
    ELSE IF \A l \in 1..Len(lines) : lines[l][1] = "-" THEN
        [ok |-> ElementsJSON(lines).ok, top |-> "seq", obj |-> {}]
    ELSE EntriesFrom(lines, 1, [ok |-> TRUE, top |-> "map", obj |-> {}])

YAMLToJSONOf(text) == YAMLToJSONLines(YamlLines(text))

\* obj.UnmarshalJSON: the JSON value has to be an object that carries a kind, a
\* string that is not empty
UnmarshalJSONOf(jsonData) ==
    /\ jsonData.top = "map"
    /\ \E e \in jsonData.obj : e.key = "kind" /\ e.f.t = "str" /\ e.f.v # <<>>

(***************************************************************************)
(* applyResource on values: the body of its loop for a part whose text is  *)
(* read by the converter above, and the server holding such objects.       *)
(***************************************************************************)
\* the string under a key of the object (obj.GetAPIVersion, obj.GetKind): its text,
\* empty when the key is missing or holds no string
TextAt(obj, key) ==
    IF \E e \in obj : e.key = key /\ e.f.t = "str"
    THEN (CHOOSE e \in obj : e.key = key /\ e.f.t = "str").f.v
    ELSE <<>>

\* the string under a key of metadata (obj.GetName, obj.GetNamespace)
MetaTextAt(obj, key) ==
    IF \E e \in obj : e.key = "metadata" /\ e.f.t = "map"
    THEN TextAt((CHOOSE e \in obj : e.key = "metadata" /\ e.f.t = "map").f.entries, key)
    ELSE <<>>

\* a text as the string of a request: the names of the model are of one atom
StringOf(text) == IF text = <<>> THEN "" ELSE text[1]

\* obj.GroupVersionKind(): apiVersion parsed, with the kind
GroupVersionKindOf(obj) ==
    LET gv == ParseGroupVersion(TextAt(obj, "apiVersion"))
    IN  [Group |-> gv.Group, Version |-> gv.Version,
         Kind |-> StringOf(TextAt(obj, "kind"))]

\* the apply request of the loop for an object and its mapping
ApplyRequestOf(obj, mapping) ==
    [verb |-> "apply", gvr |-> mapping.gvr,
     ns |-> IF mapping.namespaced THEN StringOf(MetaTextAt(obj, "namespace")) ELSE "",
     name |-> StringOf(MetaTextAt(obj, "name")), opt |-> ApplyOptions,
     body |-> <<"json", obj>>]

\* where the server keeps an object
PlaceOf(obj) ==
    [apiVersion |-> TextAt(obj, "apiVersion"), kind |-> TextAt(obj, "kind"),
     ns |-> MetaTextAt(obj, "namespace"), name |-> MetaTextAt(obj, "name")]

\* h.dyn.Resource(gvr)[.Namespace(ns)].Apply for an object of the converter: the
\* client refuses a call without a name; the server routes the request by the scope
\* of the resource, sets the fields of the body on the object it has in that place
\* (the objects here differ in the values of their keys, not in the keys, so what
\* it has afterwards is the body) and answers with the object
DynOf(cl, srv, req, fail) ==
    LET served == { e \in ServedResources(cl) : e.gvr = req.gvr }
        noRoute ==
            \/ served = {}
            \/ \E e \in served : ~e.Namespaced /\ req.ns # ""
            \/ \E e \in served : e.Namespaced /\ req.ns = ""
    IN  IF req.name = "" THEN
            [sent |-> FALSE, err |-> Err("client", "name is required"), items |-> <<>>,
             server |-> srv]
        ELSE IF fail THEN
            ServerError("server", "request failed") @@ [server |-> srv]
        ELSE IF noRoute THEN
            ServerError("NotFound", "the server could not find the requested resource")
                @@ [server |-> srv]
        ELSE
            [sent |-> TRUE, err |-> NoErr, items |-> <<req.body[2]>>,
             server |-> { x \in srv : PlaceOf(x) # PlaceOf(req.body[2]) }
                        \cup {req.body[2]}]

\* The body of the loop of applyResource for one non-blank part, as applyPart, with
\* the part read by the converter on values.
applyPartOf(cl, srv, mc, part, md, fail) ==
    LET jsonData == YAMLToJSONOf(part)
        gvk == GroupVersionKindOf(jsonData.obj)
        mapping == RESTMapping(cl, mc, md, gvk)
        req == ApplyRequestOf(jsonData.obj, mapping)
        resp == DynOf(cl, srv, req, fail)
    IN  IF ~jsonData.ok THEN
            PartOutcome(<<>>, srv, mc,
                        Err("failed to convert manifest from YAML to JSON", ""), <<>>)
        ELSE IF ~UnmarshalJSONOf(jsonData) THEN
            PartOutcome(<<>>, srv, mc, Err("failed to unmarshal manifest", ""), <<>>)
        ELSE IF mapping.err # NoErr THEN
            PartOutcome(mapping.sent, srv, mapping.mc,
                        Err("failed to get REST mapping", mapping.err.arg), <<>>)
        ELSE IF resp.err # NoErr THEN
            PartOutcome(mapping.sent \o Sent(resp, req), resp.server, mapping.mc,
                        resp.err, <<>>)
        ELSE
            PartOutcome(mapping.sent \o Sent(resp, req), resp.server, mapping.mc,
                        NoErr, JSONToYAMLOf(resp.items[1]))

\* a part that is an object waits in h.mapper.RESTMapping for the mapper
HasObjectOf(part) ==
    /\ part # <<>>
    /\ YAMLToJSONOf(part).ok
    /\ UnmarshalJSONOf(YAMLToJSONOf(part))

(***************************************************************************)
(* From getResources to applyResource: a call of getResources that was     *)
(* answered with a pod renders it, the response is delivered, and the      *)
(* caller hands the YAML it holds to applyResource as its manifest.        *)
(***************************************************************************)
\* the arguments of the call of getResources and what its discovery call answered
RenderedArgs ==
    [Resource |-> "pods", Name |-> "a", Namespace |-> "default", LabelSelector |-> "",
     CustomColumns |-> <<>>]
RenderedGVR == [Group |-> "", Version |-> "v1", Resource |-> "pods"]

\* getResources has the answer of its request: the pod the server holds
InitRoundTrip ==
    /\ cluster = BaseListing
    /\ \E o \in Objects :
          /\ server = {o}
          /\ call = [pc |-> "got", op |-> "get", args |-> RenderedArgs,
                     disc |-> [lists |-> BaseListing, err |-> "nil"], items |-> <<o>>]
          /\ rendering = [obj |-> o, yaml |-> <<>>]
    /\ mapperCache = NotLoaded
    /\ trace = <<DiscoveryRequest, GetRequest(RenderedArgs, RenderedGVR)>>
    /\ result = Idle
    /\ apply = NoApply
    /\ noted = NoNote
    /\ notedFail = NoFail
    /\ workers = [w \in Workers |-> IdleWorker]
    /\ initMu = 0
    /\ installed = Install(ReadWrite)

\* getResources renders the objects it was answered with and returns the YAML
RenderFetched ==
    /\ call.pc = "got"
    /\ result' = Response("get", call.args, call.disc, RenderedGVR, NoErr,
                          Join([i \in 1..Len(call.items) |-> JSONToYAMLOf(call.items[i])],
                               <<"---", "\n">>))
    /\ call' = NoCall
    /\ UNCHANGED <<cluster, server, mapperCache, trace, apply, noted, notedFail, workers,
                   initMu, installed, rendering>>

\* the response reaches the caller, who keeps the YAML
DeliverRendered ==
    /\ result.op = "get"
    /\ result.err = NoErr
    /\ rendering' = [rendering EXCEPT !.yaml = result.out]
    /\ result' = Idle
    /\ trace' = <<>>
    /\ UNCHANGED <<cluster, server, mapperCache, apply, noted, notedFail, workers,
                   initMu, installed, call>>

\* applyResource is called with the YAML the caller holds
ApplyRendered ==
    /\ rendering.yaml # <<>>
    /\ ApplyResourceOf({rendering.yaml})

\* h.mapper.RESTMapping finds the mapper without discovery data and fetches it, as
\* in ApplyLoad
ApplyLoadOf ==
    /\ apply.active
    /\ apply.parts # <<>>
    /\ HasObjectOf(TrimSpace(Head(apply.parts)))
    /\ ~mapperCache.valid
    /\ \E md \in DiscoveryOutcomes(cluster) :
          LET part == TrimSpace(Head(apply.parts))
              o == applyPartOf(cluster, server, mapperCache, part, md, FALSE) IN
          /\ trace' = trace \o <<DiscoveryRequest>>
          /\ mapperCache' = o.mapperCache
          /\ IF md.total
             THEN /\ apply' = AfterPart(apply, o).apply
                  /\ result' = AfterPart(apply, o).result
             ELSE UNCHANGED <<apply, result>>
    /\ UNCHANGED <<cluster, server, noted, notedFail, workers, initMu, installed, call,
                   rendering>>

\* one iteration of the loop, from the mapper's data on, as ApplyPart
ApplyPartOf ==
    /\ apply.active
    /\ apply.parts # <<>>
    /\ HasObjectOf(TrimSpace(Head(apply.parts))) => mapperCache.valid
    /\ LET part == TrimSpace(Head(apply.parts)) IN
       IF part = <<>> THEN
           /\ apply' = [apply EXCEPT !.parts = Tail(apply.parts)]
           /\ UNCHANGED <<server, mapperCache, trace, result>>
       ELSE
           \E fail \in BOOLEAN :
              LET o == applyPartOf(cluster, server, mapperCache, part, AllGroups, fail) IN
              /\ trace' = trace \o o.sent
              /\ server' = o.server
              /\ mapperCache' = o.mapperCache
              /\ apply' = AfterPart(apply, o).apply
              /\ result' = AfterPart(apply, o).result
    /\ UNCHANGED <<cluster, noted, notedFail, workers, initMu, installed, call, rendering>>

\* the delete request of another call of deleteResource is carried out
OtherDeleteOf ==
    /\ "kube_delete_resource" \in installed.tools
    /\ \E x \in server : server' = server \ {x}
    /\ UNCHANGED <<cluster, mapperCache, trace, result, apply, noted, notedFail, workers,
                   initMu, installed, call, rendering>>

\* the apply request of another call of applyResource, for the pod as getResources
\* was answered with it, is carried out
OtherApplyOf ==
    /\ "kube_apply_resource" \in installed.tools
    /\ mapperCache.valid
    /\ rendering.obj \notin server
    /\ LET mapping == RESTMapping(cluster, mapperCache, AllGroups,
                                  GroupVersionKindOf(rendering.obj))
           resp == DynOf(cluster, server, ApplyRequestOf(rendering.obj, mapping), FALSE)
       IN  /\ mapping.err = NoErr
           /\ resp.err = NoErr
           /\ server' = resp.server
    /\ UNCHANGED <<cluster, mapperCache, trace, result, apply, noted, notedFail, workers,
                   initMu, installed, call, rendering>>

NextRoundTrip ==
    \/ RenderFetched
    \/ DeliverRendered
    \/ ApplyRendered
    \/ ApplyLoadOf
    \/ ApplyPartOf
    \/ ApplyReturn
    \/ Deliver
    \/ OtherLoad
    \/ OtherDeleteOf
    \/ OtherApplyOf

SpecRoundTrip == InitRoundTrip /\ [][NextRoundTrip]_vars

\* the converter gives back every object getResources rendered
ConverterRoundTrip ==
    rendering.yaml # <<>> =>
        YAMLToJSONOf(rendering.yaml) = [ok |-> TRUE, top |-> "map", obj |-> rendering.obj]

\* a call of applyResource on the YAML sends nothing but the apply request of the
\* object rendered, once, and does not fail to read its manifest
AppliedAsRendered ==
    (rendering.yaml # <<>> /\ (apply.active \/ result.op = "apply")) =>
        /\ Len(ApplyRequests(trace)) <= 1
        /\ \A i \in 1..Len(ApplyRequests(trace)) :
              ApplyRequests(trace)[i].body = <<"json", rendering.obj>>
        /\ result.op = "apply" =>
              result.err.msg \notin {"failed to convert manifest from YAML to JSON",
                                     "failed to unmarshal manifest"}

\* C26: every object rendered with JSONToYAML and read back with YAMLToJSON is the
\* object with the same keys and values, and the rendering, handed to applyResource
\* as its manifest, is read and applied as that one object.
C26_RenderedReadsBack == ConverterRoundTrip /\ AppliedAsRendered

\* the object a call for a name asked for: the one the server keeps under the
\* resolved coordinates, the namespace and the name of the call
Named(res) ==
    { x \in {"podA", "podB", "nodeA", "widgetA"} :
        Location(x) = [gvr |-> res.gvr, ns |-> res.args.Namespace,
                       name |-> res.args.Name] }

\* C29: a call of getResources with a name that resolved its identifier sends exactly
\* one request for a resource, a Get for that name under the resolved coordinates and
\* the namespace of the call, and no List; the request carries nothing of the label
\* selector, and a call that succeeds returns that one object, which the server
\* held when the request arrived, as YAML or in the columns asked for, whatever
\* the label selector was.
C29_NamedGetIgnoresSelector ==
    [][ (/\ result.op = "idle"
         /\ result'.op = "get"
         /\ result'.args.Name # ""
         /\ result'.gvr # NoGVR) =>
           LET reqs == ResourceRequests(trace') IN
           /\ Len(reqs) = 1
           /\ reqs[1].verb = "get"
           /\ reqs[1].gvr = result'.gvr
           /\ reqs[1].ns = result'.args.Namespace
           /\ reqs[1].name = result'.args.Name
           /\ reqs[1].opt = ""
           /\ result'.err = NoErr =>
                 \E x \in Named(result') :
                     /\ Named(result') = {x}
                     /\ x \in server
                     /\ result'.out =
                           IF result'.args.CustomColumns # <<>>
                           THEN FmtCustomColumns(<<x>>, result'.args.CustomColumns).out
                           ELSE JSONToYAML(Marshal(x)) ]_vars

\* a node was fetched by its name by a call whose label selector does not select it
C29_FetchedUnselectedByName ==
    /\ result.op = "get"
    /\ result.err = NoErr
    /\ result.args.Name = "a"
    /\ result.args.Resource = "nodes"
    /\ result.args.LabelSelector = "app=x"
    /\ result.args.CustomColumns = <<>>
    /\ ~HasLabels("nodeA", result.args.LabelSelector)
    /\ result.out = JSONToYAML(Marshal("nodeA"))
    /\ Len(trace) = 2
    /\ trace[2].verb = "get"

\* C28: a call of applyResource that fails at document k returns the error and
\* nothing else, no YAML of the documents 1..k-1, while the server has applied
\* those documents: it answered each of their apply requests with the object.
C28_FailedApplyReturnsOnlyError ==
    (result.op = "apply" /\ result.err # NoErr) =>
        LET docs == DocsOf(result.args.Manifest) IN
        /\ result.out = <<>>
        /\ result.doc \in 1..Len(docs)
        /\ Len(ApplyRequests(trace)) >= result.doc - 1
        /\ Len(result.applied) = result.doc - 1
        /\ \A i \in 1..(result.doc - 1) :
              /\ ApplyRequests(trace)[i].body = Marshal(DocAtom(docs[i]))
              /\ result.applied[i] = JSONToYAML(Marshal(DocAtom(docs[i])))

\* a manifest of two documents failed at the second: the node of the first is on the
\* server and the response has no YAML of it
C28_FirstAppliedNotReported ==
    /\ result.op = "apply"
    /\ result.err # NoErr
    /\ result.doc = 2
    /\ Len(DocsOf(result.args.Manifest)) = 2
    /\ DocAtom(DocsOf(result.args.Manifest)[1]) = "nodeA"
    /\ "nodeA" \in server
    /\ ApplyRequests(trace)[1].body = Marshal("nodeA")
    /\ result.out = <<>>

(***************************************************************************)
(* The server installed with either configuration.                         *)
(***************************************************************************)
InitInstalled ==
    /\ cluster = BaseListing
    /\ server = {"podB"}
    /\ mapperCache = NotLoaded
    /\ trace = <<>>
    /\ result = Idle
    /\ apply = NoApply
    /\ noted = NoNote
    /\ notedFail = NoFail
    /\ workers = [w \in Workers |-> IdleWorker]
    /\ initMu = 0
    /\ installed \in { Install(c) : c \in Configs }
    /\ call = NoCall
    /\ rendering = NoRendering

NextInstalled == NextApply

SpecInstalled == InitInstalled /\ [][NextInstalled]_vars

\* the mutating tools: those of apply, delete and patch, and the GKE tools that
\* change a cluster, a node pool or an operation under way
MutatingTools ==
    {"kube_apply_resource", "kube_delete_resource", "kube_patch_resource",
     "gke_create_cluster", "gke_update_cluster", "gke_delete_cluster",
     "gke_create_node_pool", "gke_update_node_pool", "gke_update_master",
     "gke_start_ip_rotation", "gke_set_maintenance_policy",
     "gke_complete_convert_to_autopilot", "gke_complete_control_plane_upgrade"}

\* the tools with the name of a reading registered before the configuration is
\* looked at
UngatedReadingTools ==
    {"kube_get_resources", "kube_api_resources", "kube_get_pod_logs", "kube_can_i",
     "gke_read_logs", "gke_get_log_schema", "gke_get_cluster", "gke_list_clusters",
     "gke_get_operation"}

\* the tools with the name of a reading registered inside `if !c.ReadOnly()`
GatedReadingTools ==
    {"gke_fetch_cluster_upgrade_info", "gke_get_server_config", "gke_get_open_id_config",
     "gke_get_json_web_keys", "gke_list_usable_subnetworks",
     "gke_check_autopilot_compatibility"}

\* the read tools: those named for getting, listing, reading, fetching or checking
ReadingTools == UngatedReadingTools \cup GatedReadingTools

\* no apply, delete or patch comes from a read-only server
NoMutationWhenReadOnly ==
    installed.c.ReadOnly =>
        /\ installed.tools \cap MutatingTools = {}
        /\ ~apply.active
        /\ result.op \notin {"apply", "delete", "patch"}
        /\ \A i \in 1..Len(trace) : trace[i].verb \notin {"apply", "delete", "patch"}
        /\ server = {"podB"}

\* C27 as stated: on a server installed with a read-only configuration no mutating
\* tool is registered and no apply, delete or patch request is ever sent; with
\* either configuration every read tool is registered.
C27_ReadToolsInBothModes ==
    /\ ReadingTools \subseteq installed.tools
    /\ NoMutationWhenReadOnly

\* C27: on a server installed with a read-only configuration no mutating tool is
\* registered, no invocation is an apply, a delete or a patch, no apply, delete or
\* patch request is ever sent and the objects on the server stay what they were;
\* the nine read tools registered before the configuration is looked at are
\* registered with either configuration, the six other read tools only with a
\* configuration that is not read-only.
C27_ReadOnlyRegistersNoMutation ==
    /\ NoMutationWhenReadOnly
    /\ UngatedReadingTools \subseteq installed.tools
    /\ installed.c.ReadOnly => installed.tools \cap GatedReadingTools = {}
    /\ ~installed.c.ReadOnly => GatedReadingTools \subseteq installed.tools

\* a read-only server answered a call of kube_get_resources with the pod it listed
C27_ReadOnlyServed ==
    /\ installed.c.ReadOnly
    /\ "kube_apply_resource" \notin installed.tools
    /\ "gke_get_server_config" \notin installed.tools
    /\ result.op = "get"
    /\ result.err = NoErr
    /\ result.args.Name = ""
    /\ result.out # <<>>
    /\ Len(trace) = 2
    /\ trace[2].verb = "list"

(***************************************************************************)
(* udt_get_playbook: the file a playbook name leads to.  Names and paths   *)
(* are sequences of characters.                                            *)
(***************************************************************************)
PathChars == {"a", ".", "/"}
PlaybookNames == {<<>>} \cup SeqsUpTo(PathChars, MaxNameLen)

\* h.playbookDir, and the extension of a playbook
playbookDir == <<"/", "p">>
MD == <<".", "m", "d">>

\* the loop of filepath.Base stripping trailing slashes
RECURSIVE StripSlashes(_)
StripSlashes(path) ==
    IF path # <<>> /\ path[Len(path)] = "/"
    THEN StripSlashes(SubSeq(path, 1, Len(path) - 1))
    ELSE path

\* a name taken as it is given
BaseRaw(path) == path

\* filepath.Base: the last element of the path, "." for the empty path and "/" for
\* a path of slashes only
Base(path) ==
    IF path = <<>> THEN <<".">>
    ELSE LET stripped == StripSlashes(path)
             last == Split(stripped, "/")[Len(Split(stripped, "/"))]
         IN  IF last = <<>> THEN <<"/">> ELSE last

\* the loop of filepath.Clean over the elements of a path: "." and empty elements
\* are dropped, ".." takes back the element before it, is dropped at the root and
\* is kept at the head of a relative path
RECURSIVE CleanElems(_, _, _)
CleanElems(elems, kept, rooted) ==
    IF elems = <<>> THEN kept
    ELSE LET e == Head(elems) IN
         IF e = <<>> \/ e = <<".">> THEN CleanElems(Tail(elems), kept, rooted)
         ELSE IF e = <<".", ".">> THEN
             IF kept # <<>> /\ kept[Len(kept)] # <<".", ".">>
             THEN CleanElems(Tail(elems), SubSeq(kept, 1, Len(kept) - 1), rooted)
             ELSE IF rooted THEN CleanElems(Tail(elems), kept, rooted)
             ELSE CleanElems(Tail(elems), kept \o <<e>>, rooted)
         ELSE CleanElems(Tail(elems), kept \o <<e>>, rooted)

\* filepath.Clean
Clean(path) ==
    IF path = <<>> THEN <<".">>
    ELSE LET rooted == path[1] = "/"
             kept == CleanElems(Split(path, "/"), <<>>, rooted)
         IN  IF rooted THEN <<"/">> \o Join(kept, <<"/">>)
             ELSE IF kept = <<>> THEN <<".">>
             ELSE Join(kept, <<"/">>)

\* filepath.Join(dir, elem) for a directory that is not empty
JoinPath(dir, elem) == Clean(dir \o <<"/">> \o elem)

\* the files of the model: four directly inside the playbook directory, one in a
\* directory inside it, one outside it
InsideFiles ==
    { playbookDir \o <<"/">> \o n \o MD : n \in {<<"a">>, <<>>, <<".">>, <<".", ".">>} }
OtherFiles ==
    { playbookDir \o <<"/", "a", "/", "a">> \o MD, <<"/", "a">> \o MD }
FileSystems ==
    { inside @@ other : inside \in [InsideFiles -> {"none", "file", "dir"}],
                        other \in [OtherFiles -> {"none", "file"}] }

\* what is at a path
KindAt(fs, path) == IF path \in DOMAIN fs THEN fs[path] ELSE "none"

\* getPlaybook: os.Stat, then os.ReadFile, of playbookDir/<Base(name)>.md; the
\* content of a file is written as its path
getPlaybook(fs, args) ==
    LET cleanName == Base(args.Name)
        filePath == JoinPath(playbookDir, cleanName \o MD)
    IN  IF KindAt(fs, filePath) = "none" THEN
            [calls |-> <<[call |-> "Stat", path |-> filePath]>>,
             err |-> "playbook not found", cleanName |-> cleanName, out |-> <<>>]
        ELSE IF KindAt(fs, filePath) # "file" THEN
            [calls |-> <<[call |-> "Stat", path |-> filePath],
                         [call |-> "ReadFile", path |-> filePath]>>,
             err |-> "failed to read playbook", cleanName |-> cleanName, out |-> <<>>]
        ELSE
            [calls |-> <<[call |-> "Stat", path |-> filePath],
                         [call |-> "ReadFile", path |-> filePath]>>,
             err |-> "", cleanName |-> cleanName, out |-> filePath]

PlaybookCalls ==
    { [op |-> "playbook", args |-> [Name |-> n], fs |-> fs, done |-> FALSE,
       calls |-> <<>>, err |-> "", cleanName |-> <<>>, out |-> <<>>] :
        n \in PlaybookNames, fs \in FileSystems }

InitPlaybook ==
    /\ cluster = BaseListing
    /\ server = {"podB"}
    /\ mapperCache = NotLoaded
    /\ trace = <<>>
    /\ result \in PlaybookCalls
    /\ apply = NoApply
    /\ noted = NoNote
    /\ notedFail = NoFail
    /\ workers = [w \in Workers |-> IdleWorker]
    /\ initMu = 0
    /\ installed = Install(ReadWrite)
    /\ call = NoCall
    /\ rendering = NoRendering

GetPlaybook ==
    /\ result.op = "playbook"
    /\ ~result.done
    /\ result' = [result EXCEPT
                     !.done = TRUE,
                     !.calls = getPlaybook(result.fs, result.args).calls,
                     !.err = getPlaybook(result.fs, result.args).err,
                     !.cleanName = getPlaybook(result.fs, result.args).cleanName,
                     !.out = getPlaybook(result.fs, result.args).out]
    /\ UNCHANGED <<cluster, server, mapperCache, trace, apply, noted, notedFail,
                   workers, initMu, installed, call, rendering>>

NextPlaybook == GetPlaybook

SpecPlaybook == InitPlaybook /\ [][NextPlaybook]_vars

\* a path that names a file directly inside the playbook directory
DirectlyInside(path) ==
    LET n == Len(playbookDir) + 1
        file == SubSeq(path, n + 1, Len(path))
    IN  /\ Len(path) > n
        /\ SubSeq(path, 1, n) = playbookDir \o <<"/">>
        /\ \A i \in 1..Len(file) : file[i] # "/"
        /\ file \notin {<<".">>, <<".", ".">>}

\* the last element of a name that is not empty, found from the end
LastElement(name) ==
    LET ends == { i \in 1..Len(name) : name[i] # "/" }
        e == CHOOSE i \in ends : \A j \in ends : j <= i
        starts == { i \in 1..e : \A j \in i..e : name[j] # "/" }
        b == CHOOSE i \in starts : \A j \in starts : i <= j
    IN  IF ends = {} THEN <<>> ELSE SubSeq(name, b, e)

\* C30: for every name, getPlaybook calls the file system for one path only, the
\* file <base name>.md directly inside the playbook directory, where the base name is
\* the last element of the name ("." for the empty name, nothing for a name of slashes
\* only); it returns the not-found error, having read nothing, when no file is there,
\* and the content of that file when it is a file; no path outside the directory is
\* asked for.
C30_PlaybookInsideDirectory ==
    (result.op = "playbook" /\ result.done) =>
        LET name == result.args.Name
            base == IF name = <<>> THEN <<".">> ELSE LastElement(name)
            file == playbookDir \o <<"/">> \o base \o MD
        IN  /\ DirectlyInside(file)
            /\ result.calls # <<>>
            /\ \A i \in 1..Len(result.calls) : result.calls[i].path = file
            /\ KindAt(result.fs, file) = "none" =>
                  /\ result.err = "playbook not found"
                  /\ \A i \in 1..Len(result.calls) : result.calls[i].call = "Stat"
                  /\ result.out = <<>>
            /\ KindAt(result.fs, file) = "file" =>
                  /\ result.err = ""
                  /\ result.out = file
            /\ result.out # <<>> => DirectlyInside(result.out)

\* the name "../a" was asked for while a.md exists above the playbook directory and
\* not inside it: the answer is the not-found error
C30_TraversalNotFound ==
    /\ result.op = "playbook"
    /\ result.done
    /\ result.args.Name = <<".", ".", "/", "a">>
    /\ result.fs[<<"/", "a">> \o MD] = "file"
    /\ result.fs[playbookDir \o <<"/", "a">> \o MD] = "none"
    /\ result.err = "playbook not found"
    /\ result.calls = <<[call |-> "Stat", path |-> playbookDir \o <<"/", "a">> \o MD]>>
====
